---- MODULE Spec2Model ----
(***************************************************************************)
(* The embedding pipeline of GitNexus                                      *)
(* (src/core/embeddings/embedding-pipeline.ts): runEmbeddingPipeline as a  *)
(* state machine whose steps are the segments between its awaits, the      *)
(* progress events it pushes to onProgress, and the graph store and        *)
(* embedding engine it drives through executeQuery,                        *)
(* executeWithReusedStatement, initEmbedder and embedBatch.                *)
(***************************************************************************)
EXTENDS Integers, Sequences, FiniteSets, TLC

\* ------------------------------------------------------------------ bounds
MaxNodes == 4
MaxBatchSize == 3
MaxRuns == 2
MaxDownloadEvents == 2
MaxRecords == 3
MaxIdleBatches == 3
MaxSteps == 3

\* The download fractions the engine reports to the model-progress callback
\* (modelProgress.progress ?? 0, a value in 0..100).
DownloadPercents == {0, 37, 100}

\* The values a collaborator can throw: an Error instance carrying a message,
\* or any other value.
Failures(step) ==
  { [isError |-> TRUE, message |-> step], [isError |-> FALSE, message |-> step] }

\* The failures the store can answer CREATE_VECTOR_INDEX with.
IndexAlreadyExists == "IndexAlreadyExists"
OtherIndexErrors == {"UpstreamQueryError", "EmbeddingDimensionMismatch"}

VARIABLES
  pc,             \* where the run stands: idle, init, query, synth, embed,
                  \* insert, index, returned, thrown
  run,            \* number of runs started so far
  batchSize,      \* finalConfig.batchSize of the current run
  events,         \* the progress events delivered to onProgress in this run
  downloads,      \* number of model-progress callbacks of this run
  selected,       \* queryEmbeddableNodes has returned in this run
  nodes,          \* the nodes it returned (node ids)
  totalNodes,     \* nodes.length
  totalBatches,
  batchIndex,
  processedNodes,
  batch,          \* nodes.slice(start, end) of the current batch
  texts,
  embeddings,
  batchSizes,     \* batch.length of every batch completed in this run
  embedCalls,     \* embedBatch invocations of this run
  insertCalls,    \* executeWithReusedStatement invocations of this run
  indexCalls,     \* createVectorIndex invocations of this run
  indexOutcome,   \* what the store answered the index request of this run
  failed,         \* the failure a collaborator raised in this run, if any
  thrown,         \* the value the run re-raised to its caller, if any
  table,          \* the CodeEmbedding table of the store
  indexCount,     \* number of code_embedding_idx indexes in the store
  embedderReady,  \* isEmbedderReady()
  startStore,     \* the store's table and index count when this run began
  insertLog,      \* the executeWithReusedStatement calls of this run
  embedLog,       \* the embedBatch calls of this run, with what preceded
  embedInFlight,  \* embedBatch calls of this run not yet settled
  relations,      \* the CodeRelation edges of the graph
  searchPc,       \* where a search stands: idle, embedText, query, done,
                  \* failed
  searchCall,     \* the operation and arguments of the search
  queryVec,       \* the query's embedding
  searchResult,   \* the rows the search returned
  searchError,    \* the error the search threw, if any
  embedTextCalls, \* embedText invocations of the search
  searchQueries,  \* executeQuery invocations of the search
  searchCypher,   \* the query the search handed to executeQuery
  labels,         \* the label of every CodeNode, when the graph is given
  storeRow,       \* a result row as the store delivered it
  readBy,         \* the function that read the row
  readResult,     \* the object that function made of the row
  sinkThrows,     \* whether the caller's onProgress can throw
  sinkThrew,      \* what onProgress threw when handed the error event, if
                  \* it threw
  agentPc,        \* where streamAgentResponse stands: idle, opening,
                  \* streaming, ended
  agentMessages,  \* the messages of the agent state at its latest step
  agentSteps,     \* number of steps the agent stream has delivered
  lastMessageCount,
  chunks,         \* the chunks streamAgentResponse has yielded
  handled,        \* the message indices turned into chunks, in order
  agentFailure,   \* what the agent stream or the handling of a step threw
  agentThrown,    \* what streamAgentResponse threw to its consumer, if any
  storage,        \* localStorage's item under STORAGE_KEY
  calls           \* the latest calls of the settings service, oldest first

vars ==
  << pc, run, batchSize, events, downloads, selected, nodes, totalNodes,
     totalBatches, batchIndex, processedNodes, batch, texts, embeddings,
     batchSizes, embedCalls, insertCalls, indexCalls, indexOutcome, failed,
     thrown, table, indexCount, embedderReady, startStore, insertLog,
     embedLog, embedInFlight, relations, searchPc, searchCall, queryVec,
     searchResult, searchError, embedTextCalls, searchQueries, searchCypher,
     labels, storeRow, readBy, readResult, sinkThrows,
     sinkThrew, agentPc, agentMessages, agentSteps, lastMessageCount,
     chunks, handled, agentFailure, agentThrown, storage, calls >>

searchVars ==
  << relations, searchPc, searchCall, queryVec, searchResult, searchError,
     embedTextCalls, searchQueries, searchCypher >>
rowVars == << storeRow, readBy, readResult >>
agentVars ==
  << agentPc, agentMessages, agentSteps, lastMessageCount, chunks, handled,
     agentFailure, agentThrown >>
settingsVars == << storage, calls >>
pipelineVars ==
  << pc, run, batchSize, events, downloads, selected, nodes, totalNodes,
     totalBatches, batchIndex, processedNodes, batch, texts, embeddings,
     batchSizes, embedCalls, insertCalls, indexCalls, indexOutcome, failed,
     thrown, startStore, insertLog, embedLog, embedInFlight >>
storeVars == << table, indexCount >>
loopVars == << batchIndex, processedNodes, batch, texts, embeddings, batchSizes >>
queryVars == << selected, nodes, totalNodes, totalBatches >>
callVars == << embedCalls, insertCalls, indexCalls >>
embeddingVars ==
  << pipelineVars, searchVars, storeVars, embedderReady, labels, sinkThrows,
     sinkThrew, rowVars >>

\* --------------------------------------------------------------- helpers
Min(a, b) == IF a < b THEN a ELSE b

\* Math.round(num / den) for num >= 0, den > 0: halves round up.
Round(num, den) == (2 * num + den) \div (2 * den)

\* Math.ceil(a / b) for a >= 0, b > 0.
Ceil(a, b) == (a + b - 1) \div b

\* Math.ceil(totalNodes / 0) for totalNodes > 0: greater than every batch
\* index a run is followed to.
Infinity == MaxIdleBatches + 1

Last(s) == s[Len(s)]

\* ---------------------------------------------------------------- events
LoadingModelEvent(pct, dl) ==
  [phase |-> "loading-model", percent |-> pct, modelDownloadPercent |-> dl]

\* Variant: the download fraction forwarded as the percent, unscaled.
DownloadBandPercentUnscaled(dp) == dp

\* Math.round(downloadPercent * 0.2)
DownloadBandPercent(dp) == Round(2 * dp, 10)

EmbeddingEvent(pct, processed, total, current, batches) ==
  [phase |-> "embedding", percent |-> pct, nodesProcessed |-> processed,
   totalNodes |-> total, currentBatch |-> current, totalBatches |-> batches]

\* Variant: the initial embedding event tagged with the indexing phase.
EmbeddingStartEventAsIndexing(total, batches) ==
  [phase |-> "indexing", percent |-> 20, nodesProcessed |-> 0,
   totalNodes |-> total, currentBatch |-> 0, totalBatches |-> batches]

\* Variant: the opening event of the embedding phase counted as batch 1.
EmbeddingStartEventAsBatchOne(total, batches) ==
  EmbeddingEvent(20, 0, total, 1, batches)

EmbeddingStartEvent(total, batches) == EmbeddingEvent(20, 0, total, 0, batches)

\* Variant: the 20-point base of the embedding band left out.
EmbeddingPercentNoBase(processed, total) == Round(70 * processed, total)

\* Variant: the embedding band scaled over 100 points instead of 70.
EmbeddingPercentFullScale(processed, total) ==
  Round(20 * total + 100 * processed, total)

\* Math.round(20 + (processedNodes / totalNodes) * 70)
EmbeddingPercent(processed, total) == Round(20 * total + 70 * processed, total)

\* Variant: ready announced where the indexing checkpoint belongs.
IndexingEventAsReady(total) ==
  [phase |-> "ready", percent |-> 100, nodesProcessed |-> total,
   totalNodes |-> total]

IndexingEvent(total) ==
  [phase |-> "indexing", percent |-> 90, nodesProcessed |-> total,
   totalNodes |-> total]

ReadyEvent(total) ==
  [phase |-> "ready", percent |-> 100, nodesProcessed |-> total,
   totalNodes |-> total]

\* Variant: the fast path's ready event without its node counts.
EmptyReadyEventNoCounts == [phase |-> "ready", percent |-> 100]

EmptyReadyEvent ==
  [phase |-> "ready", percent |-> 100, nodesProcessed |-> 0, totalNodes |-> 0]

\* error instanceof Error ? error.message : 'Unknown error'
\* Variant: the message read off whatever was thrown.
ErrorMessageOfAnything(f) == f.message

\* error instanceof Error ? error.message : 'Unknown error'
ErrorMessage(f) == IF f.isError THEN f.message ELSE "Unknown error"

ErrorEvent(f) == [phase |-> "error", percent |-> 0, error |-> ErrorMessage(f)]

\* Variant: the catch block re-raises without reporting.
CatchEventsNone(f) == << >>

\* What the catch block pushes to onProgress.
CatchEvents(f) == << ErrorEvent(f) >>

\* ------------------------------------------------------- node selection
\* The labels that qualify a node for embedding.
EMBEDDABLE_LABELS == << "Function", "Method", "Class", "File" >>

\* The labels the nodes of a graph carry.
GraphLabels == {"Function", "File", "Folder"}

\* Variant: the query without its WHERE clause.
LabelConditionsAny(label) == TRUE

\* WHERE n.label = '...' OR n.label = '...' ...
LabelConditions(label) ==
  \E i \in 1..Len(EMBEDDABLE_LABELS) : label = EMBEDDABLE_LABELS[i]

\* The members of a set of numbers, in ascending order.
RECURSIVE Ascending(_)
Ascending(S) ==
  IF S = {}
    THEN << >>
    ELSE LET least == CHOOSE i \in S : \A j \in S : i <= j
         IN << least >> \o Ascending(S \ {least})

\* ------------------------------------------------------- batch arithmetic
\* Variant: floor instead of ceil.
TotalBatchesFloor(total, size) == total \div size

TotalBatchesOf(total, size) ==
  IF size = 0 THEN Infinity ELSE Ceil(total, size)

\* Variant: the batch offset taken one batch too far.
BatchStartOneAhead(index, size) == (index + 1) * size

\* batchIndex * batchSize
BatchStart(index, size) == index * size

BatchEnd(index, size, total) == Min(BatchStart(index, size) + size, total)

\* nodes.slice(start, end): the end is clamped to the array's length.
Slice(s, start, end) == SubSeq(s, start + 1, Min(end, Len(s)))

\* The text generateEmbeddingText builds for a node, and the vector the engine
\* returns for a text: both deterministic, kept apart by their tags.
TextOf(node) == << "text", node >>
VectorOf(text) == << "vector", text >>

\* Variant: the vectors paired with the batch's nodes in reverse order.
UpdatesReversed(b, embs) ==
  [i \in 1..Len(b) |-> [nodeId |-> b[i], embedding |-> embs[Len(b) + 1 - i]]]

\* batch.map((node, i) => ({ id: node.id, embedding: embeddings[i] }))
Updates(b, embs) ==
  [i \in 1..Len(b) |-> [nodeId |-> b[i], embedding |-> embs[i]]]

\* Variant: one node counted per batch.
ProcessedAfterCountingBatches(processed, b) == processed + 1

\* processedNodes += batch.length
ProcessedAfter(processed, b) == processed + Len(b)

\* Variant: the batch counter reported zero-based.
CurrentBatchZeroBased(index) == index

\* currentBatch: batchIndex + 1
CurrentBatchOf(index) == index + 1

\* Variant: the loop counter stepping over every other batch.
NextBatchIndexSkipping(index) == index + 2

\* batchIndex++
NextBatchIndex(index) == index + 1

\* The statement batchInsertEmbeddings executes.
InsertCypher == "CREATE (e:CodeEmbedding {nodeId: $nodeId, embedding: $embedding})"

\* updates.map(u => ({ nodeId: u.id, embedding: u.embedding }))
ParamsList(updates) ==
  [i \in 1..Len(updates) |->
     [nodeId |-> updates[i].nodeId, embedding |-> updates[i].embedding]]

\* Variant: one statement execution per record.
InsertStatementsPerRecord(updates) ==
  [i \in 1..Len(updates) |->
     [cypher |-> InsertCypher, paramsList |-> << ParamsList(updates)[i] >>]]

\* The executeWithReusedStatement calls batchInsertEmbeddings makes for the
\* updates of one batch.
InsertStatements(updates) ==
  << [cypher |-> InsertCypher, paramsList |-> ParamsList(updates)] >>

\* Variant: MERGE on nodeId instead of CREATE: a record whose nodeId is
\* already stored replaces the stored one.
RECURSIVE TableMerged(_, _)
TableMerged(t, params) ==
  IF params = << >>
    THEN t
    ELSE LET p == Head(params)
             hit == { i \in 1..Len(t) : t[i].nodeId = p.nodeId }
         IN TableMerged(
              IF hit = {}
                THEN Append(t, p)
                ELSE [i \in 1..Len(t) |-> IF i \in hit THEN p ELSE t[i]],
              Tail(params))

\* CREATE (e:CodeEmbedding {...}) for every parameter set: the records are
\* appended, whatever the table already holds.
TableAfterInsert(t, params) == t \o params

\* Variant: no fast path for an empty node set.
NoFastPath(total) == FALSE

\* if (totalNodes === 0)
IsEmptyFastPath(total) == total = 0

\* Variant: createVectorIndex without its catch.
IndexErrorNeverSwallowed(reason) == FALSE

\* createVectorIndex's catch: which store failures it swallows.
IndexErrorSwallowed(reason) == TRUE

\* initEmbedder on an engine that is already initialized resolves at once.
InitEmbedderIsNoop == embedderReady

\* -------------------------------------------------------------- the run
\* No run has been started.
IdlePipeline ==
  /\ pc = "idle"
  /\ run = 0
  /\ batchSize = 1
  /\ events = << >>
  /\ downloads = 0
  /\ selected = FALSE
  /\ nodes = << >>
  /\ totalNodes = 0
  /\ totalBatches = 0
  /\ batchIndex = 0
  /\ processedNodes = 0
  /\ batch = << >>
  /\ texts = << >>
  /\ embeddings = << >>
  /\ batchSizes = << >>
  /\ embedCalls = 0
  /\ insertCalls = 0
  /\ indexCalls = 0
  /\ indexOutcome = "none"
  /\ failed = << >>
  /\ thrown = << >>
  /\ sinkThrew = << >>
  /\ startStore = [table |-> << >>, indexCount |-> 0]
  /\ insertLog = << >>
  /\ embedLog = << >>
  /\ embedInFlight = 0

\* No search has been issued.
IdleSearch ==
  /\ searchPc = "idle"
  /\ searchCall = << >>
  /\ queryVec = << >>
  /\ searchResult = << >>
  /\ searchError = << >>
  /\ embedTextCalls = 0
  /\ searchQueries = 0
  /\ searchCypher = << >>

\* streamAgentResponse has not been called.
IdleAgent ==
  /\ agentPc = "idle"
  /\ agentMessages = << >>
  /\ agentSteps = 0
  /\ lastMessageCount = 0
  /\ chunks = << >>
  /\ handled = << >>
  /\ agentFailure = << >>
  /\ agentThrown = << >>

\* localStorage holds no settings and the settings service has not been
\* called.
IdleSettings ==
  /\ storage = << "none" >>
  /\ calls = << >>

\* No result row is being read.
IdleRows ==
  /\ storeRow = << >>
  /\ readBy = "none"
  /\ readResult = << >>

Init ==
  /\ IdlePipeline
  /\ IdleAgent
  /\ IdleSettings
  /\ IdleSearch
  /\ IdleRows
  /\ labels = << >>
  /\ sinkThrows = FALSE
  /\ table = << >>
  /\ indexCount = 0
  /\ embedderReady = FALSE
  /\ relations = {}

\* Variant: the catch block never hands control back to the caller.
AfterFailureHanging(at) == "hung"

\* Variant: a failed embedBatch call sends the loop back to try the batch
\* again.
AfterFailureRetrying(at) == IF at = "embed" THEN "synth" ELSE "thrown"

\* throw error: the run ends wherever the failure happened.
AfterFailure(at) == "thrown"

\* What onProgress does with the error event: it returns, or it throws.
ErrorSinkOutcomes ==
  { << >> } \cup
    (IF sinkThrows THEN { << g >> : g \in Failures("onProgress(error)") } ELSE {})

\* Variant: the caught failure re-raised whatever the sink did.
RethrownOriginal(f, sinkFailure) == << f >>

\* What leaves the catch block: `throw error` is reached only when the
\* onProgress call before it returned; otherwise what onProgress threw leaves.
Rethrown(f, sinkFailure) == IF sinkFailure = << >> THEN << f >> ELSE sinkFailure

\* The catch block, entered after the events evs were handed to the sink:
\* report the failure on the sink, then re-raise it.
CatchAfter(evs, f) ==
  /\ events' = evs \o CatchEvents(f)
  /\ \E sinkFailure \in ErrorSinkOutcomes :
       /\ sinkThrew' = sinkFailure
       /\ thrown' = Rethrown(f, sinkFailure)
  /\ pc' = AfterFailure(pc)

Catch(f) == CatchAfter(events, f)

\* A call of runEmbeddingPipeline, up to its await of initEmbedder.
\* A call of runEmbeddingPipeline: the state of a run before its first
\* progress event.
BeginRun(size) ==
  /\ pc \in {"idle", "returned", "thrown"}
  /\ run < MaxRuns
  /\ run' = run + 1
  /\ batchSize' = size
  /\ downloads' = 0
  /\ selected' = FALSE
  /\ nodes' = << >>
  /\ totalNodes' = 0
  /\ totalBatches' = 0
  /\ batchIndex' = 0
  /\ processedNodes' = 0
  /\ batch' = << >>
  /\ texts' = << >>
  /\ embeddings' = << >>
  /\ batchSizes' = << >>
  /\ embedCalls' = 0
  /\ insertCalls' = 0
  /\ indexCalls' = 0
  /\ indexOutcome' = "none"
  /\ startStore' = [table |-> table, indexCount |-> indexCount]
  /\ insertLog' = << >>
  /\ embedLog' = << >>
  /\ embedInFlight' = 0
  /\ UNCHANGED << rowVars, agentVars, settingsVars, labels, sinkThrows, searchVars,
                  storeVars, embedderReady >>

StartRun(size) ==
  /\ BeginRun(size)
  /\ events' = << LoadingModelEvent(0, 0) >>
  /\ failed' = << >>
  /\ thrown' = << >>
  /\ sinkThrew' = << >>
  /\ pc' = "init"

\* The engine reports download progress while it initializes.
ModelProgress(dp) ==
  /\ pc = "init"
  /\ ~InitEmbedderIsNoop
  /\ downloads < MaxDownloadEvents
  /\ downloads' = downloads + 1
  /\ events' = Append(events, LoadingModelEvent(DownloadBandPercent(dp), dp))
  /\ UNCHANGED << rowVars, agentVars, settingsVars, labels, sinkThrows, sinkThrew, searchVars, startStore, insertLog, embedLog, embedInFlight,
                  pc, run, batchSize, queryVars, loopVars, callVars,
                  indexOutcome, failed, thrown, storeVars, embedderReady >>

\* initEmbedder resolves: the 20% checkpoint, then the node query is issued.
InitResolves ==
  /\ pc = "init"
  /\ embedderReady' = TRUE
  /\ events' = Append(events, LoadingModelEvent(20, 100))
  /\ pc' = "query"
  /\ UNCHANGED << rowVars, agentVars, settingsVars, labels, sinkThrows, sinkThrew, searchVars, startStore, insertLog, embedLog, embedInFlight,
                  run, batchSize, downloads, queryVars, loopVars, callVars,
                  indexOutcome, failed, thrown, storeVars >>

InitRejects(f) ==
  /\ pc = "init"
  /\ ~InitEmbedderIsNoop
  /\ failed' = << f >>
  /\ Catch(f)
  /\ UNCHANGED << rowVars, agentVars, settingsVars, labels, sinkThrows, searchVars, startStore, insertLog, embedLog, embedInFlight,
                  run, batchSize, downloads, queryVars, loopVars, callVars,
                  indexOutcome, storeVars, embedderReady >>

\* After the loop: the 90% checkpoint, then createVectorIndex is called.
EnterIndexing(evs, total) ==
  /\ events' = Append(evs, IndexingEvent(total))
  /\ indexCalls' = indexCalls + 1
  /\ pc' = "index"

\* queryEmbeddableNodes resolves with the nodes ns; the run goes on to the
\* fast path or to the first batch.
QueryReturns(ns) ==
  LET n == Len(ns) IN
  /\ pc = "query"
  /\ selected' = TRUE
  /\ nodes' = ns
  /\ totalNodes' = n
  /\ IF IsEmptyFastPath(n)
       THEN /\ events' = Append(events, EmptyReadyEvent)
            /\ pc' = "returned"
            /\ totalBatches' = 0
            /\ UNCHANGED indexCalls
       ELSE /\ totalBatches' = TotalBatchesOf(n, batchSize)
            /\ IF 0 < totalBatches'
                 THEN /\ events' = Append(events, EmbeddingStartEvent(n, totalBatches'))
                      /\ pc' = "synth"
                      /\ UNCHANGED indexCalls
                 ELSE EnterIndexing(
                        Append(events, EmbeddingStartEvent(n, totalBatches')), n)
  /\ UNCHANGED << rowVars, agentVars, settingsVars, labels, sinkThrows, sinkThrew, searchVars, startStore, insertLog, embedLog, embedInFlight,
                  run, batchSize, downloads, loopVars, embedCalls, insertCalls,
                  indexOutcome, failed, thrown, storeVars, embedderReady >>

\* queryEmbeddableNodes resolves with n nodes.
QueryResolves(n) == QueryReturns([i \in 1..n |-> i])

\* queryEmbeddableNodes resolves with the nodes of the graph that its WHERE
\* clause lets through.
QuerySelects ==
  /\ labels # << >>
  /\ QueryReturns(Ascending({ id \in DOMAIN labels : LabelConditions(labels[id]) }))

QueryRejects(f) ==
  /\ pc = "query"
  /\ failed' = << f >>
  /\ Catch(f)
  /\ UNCHANGED << rowVars, agentVars, settingsVars, labels, sinkThrows, searchVars, startStore, insertLog, embedLog, embedInFlight,
                  run, batchSize, downloads, queryVars, loopVars, callVars,
                  indexOutcome, storeVars, embedderReady >>

\* One loop iteration up to its await of embedBatch: slice the batch,
\* synthesize its texts, call embedBatch.
SynthReturns ==
  /\ pc = "synth"
  /\ batchSize = 0 => batchIndex < MaxIdleBatches
  /\ batch' = Slice(nodes, BatchStart(batchIndex, batchSize),
                    BatchEnd(batchIndex, batchSize, totalNodes))
  /\ texts' = [i \in 1..Len(batch') |-> TextOf(batch'[i])]
  /\ embedCalls' = embedCalls + 1
  /\ embedInFlight' = embedInFlight + 1
  /\ embedLog' = Append(embedLog,
                        [texts |-> texts', delivered |-> Len(events),
                         written |-> Len(table) - Len(startStore.table)])
  /\ pc' = "embed"
  /\ UNCHANGED << rowVars, agentVars, settingsVars, labels, sinkThrows, sinkThrew, searchVars, startStore, insertLog,
                  run, batchSize, events, downloads, queryVars, batchIndex,
                  processedNodes, embeddings, batchSizes, insertCalls,
                  indexCalls, indexOutcome, failed, thrown, storeVars,
                  embedderReady >>

SynthThrows(f) ==
  /\ pc = "synth"
  /\ failed' = << f >>
  /\ Catch(f)
  /\ UNCHANGED << rowVars, agentVars, settingsVars, labels, sinkThrows, searchVars, startStore, insertLog, embedLog, embedInFlight,
                  run, batchSize, downloads, queryVars, loopVars, callVars,
                  indexOutcome, storeVars, embedderReady >>

\* embedBatch resolves with one vector per text, in order; the updates are
\* built and handed to batchInsertEmbeddings.
EmbedResolves ==
  /\ pc = "embed"
  /\ embeddings' = [i \in 1..Len(texts) |-> VectorOf(texts[i])]
  /\ embedInFlight' = embedInFlight - 1
  /\ insertCalls' = insertCalls + 1
  /\ insertLog' = insertLog \o InsertStatements(Updates(batch, embeddings'))
  /\ pc' = "insert"
  /\ UNCHANGED << rowVars, agentVars, settingsVars, labels, sinkThrows, sinkThrew, searchVars, startStore, embedLog,
                  run, batchSize, events, downloads, queryVars, batchIndex,
                  processedNodes, batch, texts, batchSizes, embedCalls,
                  indexCalls, indexOutcome, failed, thrown, storeVars,
                  embedderReady >>

EmbedRejects(f) ==
  /\ pc = "embed"
  /\ embedInFlight' = embedInFlight - 1
  /\ failed' = << f >>
  /\ Catch(f)
  /\ UNCHANGED << rowVars, agentVars, settingsVars, labels, sinkThrows, searchVars, startStore, insertLog, embedLog,
                  run, batchSize, downloads, queryVars, loopVars, callVars,
                  indexOutcome, storeVars, embedderReady >>

\* The insert resolves: the records are appended, progress is reported, and
\* the loop goes on to the next batch or leaves for the indexing phase.
InsertResolves ==
  /\ pc = "insert"
  /\ table' = TableAfterInsert(table, Updates(batch, embeddings))
  /\ processedNodes' = ProcessedAfter(processedNodes, batch)
  /\ batchSizes' = Append(batchSizes, Len(batch))
  /\ batchIndex' = NextBatchIndex(batchIndex)
  /\ LET progress ==
           EmbeddingEvent(EmbeddingPercent(processedNodes', totalNodes),
                          processedNodes', totalNodes,
                          CurrentBatchOf(batchIndex), totalBatches)
     IN IF batchIndex' < totalBatches
          THEN /\ events' = Append(events, progress)
               /\ pc' = "synth"
               /\ UNCHANGED indexCalls
          ELSE EnterIndexing(Append(events, progress), totalNodes)
  /\ UNCHANGED << rowVars, agentVars, settingsVars, labels, sinkThrows, sinkThrew, searchVars, startStore, insertLog, embedLog, embedInFlight,
                  run, batchSize, downloads, queryVars, batch, texts,
                  embeddings, embedCalls, insertCalls, indexOutcome, failed,
                  thrown, indexCount, embedderReady >>

\* The insert fails after the store has kept the first `written` records.
InsertRejects(f, written) ==
  /\ pc = "insert"
  /\ written = 0 \/ written < Len(batch)
  /\ table' = TableAfterInsert(table,
                               SubSeq(Updates(batch, embeddings), 1, written))
  /\ failed' = << f >>
  /\ Catch(f)
  /\ UNCHANGED << rowVars, agentVars, settingsVars, labels, sinkThrows, searchVars, startStore, insertLog, embedLog, embedInFlight,
                  run, batchSize, downloads, queryVars, loopVars, callVars,
                  indexOutcome, indexCount, embedderReady >>

\* The store builds the index; createVectorIndex returns; ready is reported.
IndexResolves ==
  /\ pc = "index"
  /\ indexCount = 0
  /\ indexCount' = 1
  /\ indexOutcome' = "created"
  /\ events' = Append(events, ReadyEvent(totalNodes))
  /\ pc' = "returned"
  /\ UNCHANGED << rowVars, agentVars, settingsVars, labels, sinkThrows, sinkThrew, searchVars, startStore, insertLog, embedLog, embedInFlight,
                  run, batchSize, downloads, queryVars, loopVars, callVars,
                  failed, thrown, table, embedderReady >>

\* The store answers the index request with a failure.
IndexRejects(reason, f) ==
  /\ pc = "index"
  /\ reason = IndexAlreadyExists => indexCount > 0
  /\ indexOutcome' = reason
  /\ failed' = << f >>
  /\ IF IndexErrorSwallowed(reason)
       THEN /\ events' = Append(events, ReadyEvent(totalNodes))
            /\ pc' = "returned"
            /\ UNCHANGED << thrown, sinkThrew >>
       ELSE Catch(f)
  /\ UNCHANGED << rowVars, agentVars, settingsVars, labels, sinkThrows, searchVars, startStore, insertLog, embedLog, embedInFlight,
                  run, batchSize, downloads, queryVars, loopVars, callVars,
                  storeVars, embedderReady >>

Next ==
  \/ \E size \in 1..MaxBatchSize : StartRun(size)
  \/ \E dp \in DownloadPercents : ModelProgress(dp)
  \/ InitResolves
  \/ \E f \in Failures("initEmbedder") : InitRejects(f)
  \/ \E n \in 0..MaxNodes : QueryResolves(n)
  \/ \E f \in Failures("queryEmbeddableNodes") : QueryRejects(f)
  \/ SynthReturns
  \/ \E f \in Failures("generateBatchEmbeddingTexts") : SynthThrows(f)
  \/ EmbedResolves
  \/ \E f \in Failures("embedBatch") : EmbedRejects(f)
  \/ InsertResolves
  \/ \E f \in Failures("batchInsertEmbeddings"), w \in 0..(Len(batch) - 1) :
       InsertRejects(f, w)
  \/ IndexResolves
  \/ \E reason \in {IndexAlreadyExists} \cup OtherIndexErrors,
        f \in Failures("createVectorIndex") : IndexRejects(reason, f)

Spec == Init /\ [][Next]_vars

\* One run over larger inputs: 25 nodes in batches of 10, next to the small
\* node counts and batch sizes.
ScenarioBatchSizes == (1..MaxBatchSize) \cup {10}
ScenarioNodeCounts == (0..MaxNodes) \cup {25}

NextScenario ==
  \/ \E size \in ScenarioBatchSizes : run = 0 /\ StartRun(size)
  \/ \E dp \in DownloadPercents : ModelProgress(dp)
  \/ InitResolves
  \/ \E f \in Failures("initEmbedder") : InitRejects(f)
  \/ \E n \in ScenarioNodeCounts : QueryResolves(n)
  \/ \E f \in Failures("queryEmbeddableNodes") : QueryRejects(f)
  \/ SynthReturns
  \/ \E f \in Failures("generateBatchEmbeddingTexts") : SynthThrows(f)
  \/ EmbedResolves
  \/ \E f \in Failures("embedBatch") : EmbedRejects(f)
  \/ InsertResolves
  \/ \E f \in Failures("batchInsertEmbeddings"), w \in 0..(Len(batch) - 1) :
       InsertRejects(f, w)
  \/ IndexResolves
  \/ \E reason \in OtherIndexErrors, f \in Failures("createVectorIndex") :
       IndexRejects(reason, f)

SpecScenario == Init /\ [][NextScenario]_vars

\* ------------------------------------------------- a sink that can throw
\* Every onProgress call of the run sits inside its try block: when the
\* sink throws on an event, the event has been handed over and the catch
\* block takes the thrown value as the run's failure.
SinkFailures == Failures("onProgress")

StartRunSinkThrows(size, f) ==
  /\ sinkThrows
  /\ BeginRun(size)
  /\ failed' = << f >>
  /\ CatchAfter(<< LoadingModelEvent(0, 0) >>, f)

\* The sink throws on a forwarded download event, inside the callback the
\* engine was given, and the engine lets the exception out of initEmbedder.
\* (An engine that keeps it to itself gives ModelProgress.)
ModelProgressSinkThrows(dp, f) ==
  /\ sinkThrows
  /\ pc = "init"
  /\ ~InitEmbedderIsNoop
  /\ downloads < MaxDownloadEvents
  /\ downloads' = downloads + 1
  /\ failed' = << f >>
  /\ CatchAfter(Append(events, LoadingModelEvent(DownloadBandPercent(dp), dp)), f)
  /\ UNCHANGED << rowVars, agentVars, settingsVars, labels, sinkThrows, searchVars, startStore,
                  insertLog, embedLog, embedInFlight, run, batchSize,
                  queryVars, loopVars, callVars, indexOutcome, storeVars,
                  embedderReady >>

InitResolvesSinkThrows(f) ==
  /\ sinkThrows
  /\ pc = "init"
  /\ embedderReady' = TRUE
  /\ failed' = << f >>
  /\ CatchAfter(Append(events, LoadingModelEvent(20, 100)), f)
  /\ UNCHANGED << rowVars, agentVars, settingsVars, labels, sinkThrows, searchVars, startStore,
                  insertLog, embedLog, embedInFlight, run, batchSize,
                  downloads, queryVars, loopVars, callVars, indexOutcome,
                  storeVars >>

\* The sink throws on the event that follows the node query: the ready event
\* of the fast path, or the event that opens the embedding phase.
QueryReturnsSinkThrows(ns, f) ==
  LET n == Len(ns) IN
  /\ sinkThrows
  /\ pc = "query"
  /\ selected' = TRUE
  /\ nodes' = ns
  /\ totalNodes' = n
  /\ totalBatches' = IF IsEmptyFastPath(n) THEN 0 ELSE TotalBatchesOf(n, batchSize)
  /\ failed' = << f >>
  /\ CatchAfter(Append(events, IF IsEmptyFastPath(n)
                                 THEN EmptyReadyEvent
                                 ELSE EmbeddingStartEvent(n, totalBatches')), f)
  /\ UNCHANGED << rowVars, agentVars, settingsVars, labels, sinkThrows, searchVars, startStore,
                  insertLog, embedLog, embedInFlight, run, batchSize,
                  downloads, loopVars, callVars, indexOutcome, storeVars,
                  embedderReady >>

QueryResolvesSinkThrows(n, f) == QueryReturnsSinkThrows([i \in 1..n |-> i], f)

\* The insert resolves and the sink throws on the batch's progress event.
InsertResolvesSinkThrows(f) ==
  /\ sinkThrows
  /\ pc = "insert"
  /\ table' = TableAfterInsert(table, Updates(batch, embeddings))
  /\ processedNodes' = ProcessedAfter(processedNodes, batch)
  /\ failed' = << f >>
  /\ CatchAfter(
       Append(events,
              EmbeddingEvent(EmbeddingPercent(processedNodes', totalNodes),
                             processedNodes', totalNodes,
                             CurrentBatchOf(batchIndex), totalBatches)), f)
  /\ UNCHANGED << rowVars, agentVars, settingsVars, labels, sinkThrows, searchVars, startStore,
                  insertLog, embedLog, embedInFlight, run, batchSize,
                  downloads, queryVars, batchIndex, batch, texts, embeddings,
                  batchSizes, callVars, indexOutcome, indexCount,
                  embedderReady >>

\* The last insert resolves, its progress event is taken, and the sink throws
\* on the indexing event: createVectorIndex is not called.
IndexingSinkThrows(f) ==
  /\ sinkThrows
  /\ pc = "insert"
  /\ ~(NextBatchIndex(batchIndex) < totalBatches)
  /\ table' = TableAfterInsert(table, Updates(batch, embeddings))
  /\ processedNodes' = ProcessedAfter(processedNodes, batch)
  /\ batchSizes' = Append(batchSizes, Len(batch))
  /\ batchIndex' = NextBatchIndex(batchIndex)
  /\ failed' = << f >>
  /\ CatchAfter(
       events \o
         << EmbeddingEvent(EmbeddingPercent(processedNodes', totalNodes),
                           processedNodes', totalNodes,
                           CurrentBatchOf(batchIndex), totalBatches),
            IndexingEvent(totalNodes) >>, f)
  /\ UNCHANGED << rowVars, agentVars, settingsVars, labels, sinkThrows, searchVars, startStore,
                  insertLog, embedLog, embedInFlight, run, batchSize,
                  downloads, queryVars, batch, texts, embeddings, callVars,
                  indexOutcome, indexCount, embedderReady >>

\* createVectorIndex returns, with the index built or with the store's
\* failure swallowed, and the sink throws on the ready event.
ReadySinkThrows(outcome, f) ==
  /\ sinkThrows
  /\ pc = "index"
  /\ IF outcome = "created"
       THEN /\ indexCount = 0
            /\ indexCount' = 1
       ELSE /\ IndexErrorSwallowed(outcome)
            /\ outcome = IndexAlreadyExists => indexCount > 0
            /\ UNCHANGED indexCount
  /\ indexOutcome' = outcome
  /\ failed' = << f >>
  /\ CatchAfter(Append(events, ReadyEvent(totalNodes)), f)
  /\ UNCHANGED << rowVars, agentVars, settingsVars, labels, sinkThrows, searchVars, startStore,
                  insertLog, embedLog, embedInFlight, run, batchSize,
                  downloads, queryVars, loopVars, callVars, table,
                  embedderReady >>

\* One run, its batch size 0 or more, under a sink that can throw.
SinkBatchSizes == 0..MaxBatchSize

InitSink ==
  /\ IdlePipeline
  /\ IdleAgent
  /\ IdleSettings
  /\ IdleSearch
  /\ IdleRows
  /\ labels = << >>
  /\ sinkThrows = TRUE
  /\ table = << >>
  /\ indexCount = 0
  /\ embedderReady = FALSE
  /\ relations = {}

\* The steps by which a call the run is waiting on, or the sink it has
\* called, returns or throws.
Settle ==
  \/ \E dp \in DownloadPercents : ModelProgress(dp)
  \/ \E dp \in DownloadPercents, f \in SinkFailures : ModelProgressSinkThrows(dp, f)
  \/ InitResolves
  \/ \E f \in SinkFailures : InitResolvesSinkThrows(f)
  \/ \E f \in Failures("initEmbedder") : InitRejects(f)
  \/ \E n \in 0..MaxNodes : QueryResolves(n)
  \/ \E n \in 0..MaxNodes, f \in SinkFailures : QueryResolvesSinkThrows(n, f)
  \/ \E f \in Failures("queryEmbeddableNodes") : QueryRejects(f)
  \/ SynthReturns
  \/ \E f \in Failures("generateBatchEmbeddingTexts") : SynthThrows(f)
  \/ EmbedResolves
  \/ \E f \in Failures("embedBatch") : EmbedRejects(f)
  \/ InsertResolves
  \/ \E f \in SinkFailures : InsertResolvesSinkThrows(f)
  \/ \E f \in SinkFailures : IndexingSinkThrows(f)
  \/ \E f \in Failures("batchInsertEmbeddings"), w \in 0..Len(batch) :
       InsertRejects(f, w)
  \/ IndexResolves
  \/ \E reason \in OtherIndexErrors, f \in Failures("createVectorIndex") :
       IndexRejects(reason, f)
  \/ \E outcome \in {"created"} \cup OtherIndexErrors, f \in SinkFailures :
       ReadySinkThrows(outcome, f)

NextSink ==
  \/ \E size \in SinkBatchSizes : run = 0 /\ StartRun(size)
  \/ \E size \in SinkBatchSizes, f \in SinkFailures :
       run = 0 /\ StartRunSinkThrows(size, f)
  \/ Settle

\* Every call of a run whose batch size is at least 1 returns or throws, and
\* so does every call of the sink: the run is never left waiting.
SpecSink ==
  InitSink /\ [][NextSink]_vars /\ WF_vars(batchSize >= 1 /\ Settle)

\* One run over a graph whose nodes carry labels.
InitSelect ==
  /\ IdlePipeline
  /\ IdleAgent
  /\ IdleSettings
  /\ IdleSearch
  /\ IdleRows
  /\ table = << >>
  /\ indexCount = 0
  /\ embedderReady = FALSE
  /\ relations = {}
  /\ labels \in [1..MaxNodes -> GraphLabels]
  /\ sinkThrows = FALSE

NextSelect ==
  \/ \E size \in 1..MaxBatchSize : run = 0 /\ StartRun(size)
  \/ \E dp \in DownloadPercents : ModelProgress(dp)
  \/ InitResolves
  \/ \E f \in Failures("initEmbedder") : InitRejects(f)
  \/ QuerySelects
  \/ \E f \in Failures("queryEmbeddableNodes") : QueryRejects(f)
  \/ SynthReturns
  \/ \E f \in Failures("generateBatchEmbeddingTexts") : SynthThrows(f)
  \/ EmbedResolves
  \/ \E f \in Failures("embedBatch") : EmbedRejects(f)
  \/ InsertResolves
  \/ \E f \in Failures("batchInsertEmbeddings"), w \in 0..(Len(batch) - 1) :
       InsertRejects(f, w)
  \/ IndexResolves
  \/ \E reason \in OtherIndexErrors, f \in Failures("createVectorIndex") :
       IndexRejects(reason, f)

SpecSelect == InitSelect /\ [][NextSelect]_vars

\* ------------------------------------------------------------- the search
\* Distances are counted in tenths: the threshold 0.5 is 5.
ContextMaxDistance == 5

\* The arguments the searches are called with.
SearchKs == {1, 5}
SearchMaxDistances == {3, 5}
SearchHops == {1, 2}

\* The vectors of the stored records and of the queries, as positions on a
\* line; the node ids that have records; the CodeNode ids of the graph.
RecordVectors == { VectorOf(TextOf(p)) : p \in {1, 2, 4} }
QueryVectors == {0, -1}
EmbeddedIds == {1, 2}
GraphNodeIds == {1, 2, 3}

\* The CodeRelation edges a graph may hold.
CandidateEdges ==
  << [from |-> 1, to |-> 3, type |-> "CALLS"],
     [from |-> 1, to |-> 2, type |-> "IMPORTS"],
     [from |-> 3, to |-> 1, type |-> "IMPORTS"] >>

CandidateEdgeSet == { CandidateEdges[i] : i \in 1..Len(CandidateEdges) }

\* The embedding tables a search may find.
SearchTables ==
  UNION { [1..n -> [nodeId : EmbeddedIds, embedding : RecordVectors]] :
            n \in 0..MaxRecords }

NotInitialized == "Embedding model not initialized. Run embedding pipeline first."
IndexMissing == "IndexMissingError"

Abs(x) == IF x < 0 THEN 0 - x ELSE x

\* The store's distance between the query vector and a stored vector: the
\* vector of the text of node p lies at position p.
DistanceOf(qv, emb) == Abs(qv - emb[2][2])

\* The query semanticSearch builds.
PlainCypher(qv, k, maxDistance) ==
  [index |-> "code_embedding_idx", vector |-> qv, k |-> k,
   maxDistance |-> maxDistance, expand |-> "",
   orderBy |-> << "distance" >>]

\* Variant: the relation pattern made as long as the caller's hops.
ContextCypherWithHops(qv, k, hops) ==
  [index |-> "code_embedding_idx", vector |-> qv, k |-> k,
   maxDistance |-> ContextMaxDistance,
   expand |-> IF hops = 1
                THEN "(match)-[r:CodeRelation]-(connected:CodeNode)"
                ELSE "(match)-[r:CodeRelation*]-(connected:CodeNode)",
   orderBy |-> << "distance", "matchId" >>]

\* The query semanticSearchWithContext builds: _hops is not used.
ContextCypher(qv, k, hops) ==
  [index |-> "code_embedding_idx", vector |-> qv, k |-> k,
   maxDistance |-> ContextMaxDistance,
   expand |-> "(match)-[r:CodeRelation]-(connected:CodeNode)",
   orderBy |-> << "distance", "matchId" >>]

\* Variant: a failed query answered with an empty result.
SearchErrorSwallowed(reason) == FALSE

\* await executeQuery(cypher), outside any try: the store's error reaches
\* the caller.
SearchErrorPropagates(reason) == TRUE

\* Variant: the guard of the searches left out.
AlwaysReady == TRUE

\* isEmbedderReady()
IsEmbedderReady == embedderReady

\* Variant: the threshold compared with less-or-equal.
WithinDistanceInclusive(d, maxDistance) == d <= maxDistance

\* WHERE distance < ${maxDistance}
WithinDistance(d, maxDistance) == d < maxDistance

\* Variant: the context search filtering by a caller's threshold of 0.6.
ContextWithinDistanceLoose(d) == d < ContextMaxDistance + 1

\* WHERE distance < 0.5
ContextWithinDistance(d) == d < ContextMaxDistance

\* QUERY_VECTOR_INDEX(..., k): the sets of k records (all of them when there
\* are fewer) nearest to the query; ties at the cut are the store's choice.
TopKSets(t, qv, k) ==
  { S \in SUBSET (1..Len(t)) :
      /\ Cardinality(S) = Min(k, Len(t))
      /\ \A i \in S : \A j \in (1..Len(t)) \ S :
           DistanceOf(qv, t[i].embedding) <= DistanceOf(qv, t[j].embedding) }

\* YIELD node AS emb, distance
Yielded(t, qv, S) ==
  LET order == Ascending(S)
  IN [i \in 1..Len(order) |->
        [nodeId |-> t[order[i]].nodeId,
         distance |-> DistanceOf(qv, t[order[i]].embedding)]]

\* ORDER BY distance
PlainRowBefore(a, b) == a.distance < b.distance

\* ORDER BY distance, matchId
ContextRowBefore(a, b) ==
  \/ a.distance < b.distance
  \/ (a.distance = b.distance /\ a.matchId < b.matchId)

\* ORDER BY: rows that the order does not tell apart keep their places.
RECURSIVE InsertPlain(_, _)
InsertPlain(sorted, row) ==
  IF sorted = << >> \/ ~PlainRowBefore(row, sorted[Len(sorted)])
    THEN Append(sorted, row)
    ELSE Append(InsertPlain(SubSeq(sorted, 1, Len(sorted) - 1), row),
                sorted[Len(sorted)])

RECURSIVE SortPlain(_)
SortPlain(rows) ==
  IF rows = << >>
    THEN << >>
    ELSE InsertPlain(SortPlain(SubSeq(rows, 1, Len(rows) - 1)), rows[Len(rows)])

RECURSIVE InsertContext(_, _)
InsertContext(sorted, row) ==
  IF sorted = << >> \/ ~ContextRowBefore(row, sorted[Len(sorted)])
    THEN Append(sorted, row)
    ELSE Append(InsertContext(SubSeq(sorted, 1, Len(sorted) - 1), row),
                sorted[Len(sorted)])

RECURSIVE SortContext(_)
SortContext(rows) ==
  IF rows = << >>
    THEN << >>
    ELSE InsertContext(SortContext(SubSeq(rows, 1, Len(rows) - 1)),
                       rows[Len(rows)])

PlainKept(row) ==
  /\ WithinDistance(row.distance, searchCall.maxDistance)
  /\ row.nodeId \in GraphNodeIds

\* The rows of semanticSearch's query: the k nearest records, those under
\* maxDistance, joined to their CodeNode, ordered by distance.
PlainQueryRows(t, qv, S) == SortPlain(SelectSeq(Yielded(t, qv, S), PlainKept))

\* rows.map(row => ({ nodeId: row.nodeId ?? row[0], ... }))
MapPlainRows(rows) ==
  [i \in 1..Len(rows) |->
     [nodeId |-> rows[i].nodeId, distance |-> rows[i].distance]]

\* Variant: the relation pattern followed from the match outwards only.
IncidentOutgoing(e, m) == e.from = m

\* MATCH (match)-[r:CodeRelation]-(connected:CodeNode)
Incident(e, m) == e.from = m \/ e.to = m

\* One row per relation of the graph that touches the match.
RECURSIVE ConnectedRows(_, _)
ConnectedRows(match, edges) ==
  IF edges = << >>
    THEN << >>
    ELSE LET e == Head(edges)
             here ==
               IF e \in relations /\ Incident(e, match.nodeId)
                 THEN << [matchId |-> match.nodeId,
                          distance |-> match.distance,
                          connectedId |->
                            IF e.from = match.nodeId THEN e.to ELSE e.from,
                          relationType |-> e.type] >>
                 ELSE << >>
         IN here \o ConnectedRows(match, Tail(edges))

ContextKept(row) ==
  /\ ContextWithinDistance(row.distance)
  /\ row.nodeId \in GraphNodeIds

\* Variant: OPTIONAL MATCH, a match that no relation touches kept as one row
\* without a neighbour.
RECURSIVE ExpandedOptional(_)
ExpandedOptional(matches) ==
  IF matches = << >>
    THEN << >>
    ELSE LET rows == ConnectedRows(Head(matches), CandidateEdges)
         IN (IF rows = << >>
               THEN << [matchId |-> Head(matches).nodeId,
                        distance |-> Head(matches).distance,
                        connectedId |-> 0,
                        relationType |-> "none"] >>
               ELSE rows) \o ExpandedOptional(Tail(matches))

\* MATCH (match)-[r:CodeRelation]-(connected:CodeNode), for every match.
RECURSIVE Expanded(_)
Expanded(matches) ==
  IF matches = << >>
    THEN << >>
    ELSE ConnectedRows(Head(matches), CandidateEdges) \o Expanded(Tail(matches))

\* The rows of semanticSearchWithContext's query: the k nearest records,
\* those under 0.5, joined to their CodeNode, expanded one hop, ordered by
\* distance and match id.
ContextQueryRows(t, qv, S) ==
  SortContext(Expanded(SelectSeq(Yielded(t, qv, S), ContextKept)))

\* A store that a search may be issued against.
InitSearch ==
  /\ IdlePipeline
  /\ IdleAgent
  /\ IdleSettings
  /\ IdleSearch
  /\ IdleRows
  /\ labels = << >>
  /\ sinkThrows = FALSE
  /\ relations \in SUBSET CandidateEdgeSet
  /\ \/ /\ embedderReady = FALSE
        /\ table = << >>
        /\ indexCount = 0
     \/ /\ embedderReady = TRUE
        /\ table \in SearchTables
        /\ indexCount \in {0, 1}

\* semanticSearch up to its await of embedText.
SemanticSearch(k, maxDistance) ==
  /\ searchPc = "idle"
  /\ searchCall' = [op |-> "plain", k |-> k, maxDistance |-> maxDistance]
  /\ IF IsEmbedderReady
       THEN /\ embedTextCalls' = embedTextCalls + 1
            /\ searchPc' = "embedText"
            /\ UNCHANGED searchError
       ELSE /\ searchError' = << NotInitialized >>
            /\ searchPc' = "failed"
            /\ UNCHANGED embedTextCalls
  /\ UNCHANGED << rowVars, agentVars, settingsVars, labels, sinkThrows, sinkThrew, searchCypher, pipelineVars, storeVars, embedderReady, relations, queryVec,
                  searchResult, searchQueries >>

\* semanticSearchWithContext up to its await of embedText.
SemanticSearchWithContext(k, hops) ==
  /\ searchPc = "idle"
  /\ searchCall' = [op |-> "context", k |-> k, hops |-> hops]
  /\ IF IsEmbedderReady
       THEN /\ embedTextCalls' = embedTextCalls + 1
            /\ searchPc' = "embedText"
            /\ UNCHANGED searchError
       ELSE /\ searchError' = << NotInitialized >>
            /\ searchPc' = "failed"
            /\ UNCHANGED embedTextCalls
  /\ UNCHANGED << rowVars, agentVars, settingsVars, labels, sinkThrows, sinkThrew, searchCypher, pipelineVars, storeVars, embedderReady, relations, queryVec,
                  searchResult, searchQueries >>

\* embedText resolves; the query is built and handed to executeQuery.
EmbedTextResolves(qv) ==
  /\ searchPc = "embedText"
  /\ queryVec' = << qv >>
  /\ searchCypher' =
       IF searchCall.op = "plain"
         THEN << PlainCypher(qv, searchCall.k, searchCall.maxDistance) >>
         ELSE << ContextCypher(qv, searchCall.k, searchCall.hops) >>
  /\ searchQueries' = searchQueries + 1
  /\ searchPc' = "query"
  /\ UNCHANGED << rowVars, agentVars, settingsVars, labels, sinkThrows, sinkThrew, pipelineVars, storeVars, embedderReady, relations,
                  searchCall, searchResult, searchError, embedTextCalls >>

\* Variant: the failure of embedText also reported on the run's progress
\* sink.
EmbedTextRejectsReporting ==
  /\ searchPc = "embedText"
  /\ searchError' = << "embedText" >>
  /\ searchPc' = "failed"
  /\ events' = Append(events, [phase |-> "error", percent |-> 0,
                               error |-> "embedText"])
  /\ UNCHANGED << rowVars, agentVars, settingsVars, labels, sinkThrows, sinkThrew, searchCypher, storeVars, embedderReady,
                  relations, searchCall, queryVec, searchResult,
                  embedTextCalls, searchQueries, pc, run, batchSize,
                  downloads, queryVars, loopVars, callVars, indexOutcome,
                  failed, thrown, startStore, insertLog, embedLog,
                  embedInFlight >>

EmbedTextRejects ==
  /\ searchPc = "embedText"
  /\ searchError' = << "embedText" >>
  /\ searchPc' = "failed"
  /\ UNCHANGED << rowVars, agentVars, settingsVars, labels, sinkThrows, sinkThrew, searchCypher, pipelineVars, storeVars, embedderReady, relations,
                  searchCall, queryVec, searchResult, embedTextCalls,
                  searchQueries >>

\* The store answers the search query.
SearchQueryResolves ==
  /\ searchPc = "query"
  /\ indexCount > 0
  /\ \E S \in TopKSets(table, searchCypher[1].vector, searchCypher[1].k) :
       searchResult' =
         IF searchCall.op = "plain"
           THEN MapPlainRows(PlainQueryRows(table, searchCypher[1].vector, S))
           ELSE ContextQueryRows(table, searchCypher[1].vector, S)
  /\ searchPc' = "done"
  /\ UNCHANGED << rowVars, agentVars, settingsVars, labels, sinkThrows, sinkThrew, searchCypher, pipelineVars, storeVars, embedderReady, relations,
                  searchCall, queryVec, searchError, embedTextCalls,
                  searchQueries >>

\* The store rejects the search query.
SearchQueryRejects(reason) ==
  /\ searchPc = "query"
  /\ reason = IndexMissing <=> indexCount = 0
  /\ IF SearchErrorPropagates(reason)
       THEN /\ searchError' = << reason >>
            /\ searchPc' = "failed"
            /\ UNCHANGED searchResult
       ELSE /\ searchResult' = << >>
            /\ searchPc' = "done"
            /\ UNCHANGED searchError
  /\ UNCHANGED << rowVars, agentVars, settingsVars, labels, sinkThrows, sinkThrew, searchCypher, pipelineVars, storeVars,
                  embedderReady, relations, searchCall, queryVec,
                  embedTextCalls, searchQueries >>

NextSearch ==
  \/ \E k \in SearchKs, d \in SearchMaxDistances : SemanticSearch(k, d)
  \/ \E k \in SearchKs, h \in SearchHops : SemanticSearchWithContext(k, h)
  \/ \E qv \in QueryVectors : EmbedTextResolves(qv)
  \/ EmbedTextRejects
  \/ SearchQueryResolves
  \/ \E reason \in {IndexMissing, "UpstreamQueryError"} :
       SearchQueryRejects(reason)

SpecSearch == InitSearch /\ [][NextSearch]_vars

\* ------------------------------------------- a search next to a run
\* The table an earlier run over two nodes has left.
EarlierTable ==
  [i \in 1..2 |-> [nodeId |-> i, embedding |-> VectorOf(TextOf(i))]]

\* A fresh store and an idle engine, or what an earlier run has left.
InitConcurrent ==
  /\ IdlePipeline
  /\ IdleAgent
  /\ IdleSettings
  /\ IdleSearch
  /\ IdleRows
  /\ labels = << >>
  /\ sinkThrows = FALSE
  /\ relations = CandidateEdgeSet
  /\ \/ /\ embedderReady = FALSE
        /\ table = << >>
        /\ indexCount = 0
     \/ /\ embedderReady = TRUE
        /\ table = EarlierTable
        /\ indexCount = 1

\* One run.
NextRun ==
  \/ \E size \in 1..MaxBatchSize : run = 0 /\ StartRun(size)
  \/ \E dp \in DownloadPercents : ModelProgress(dp)
  \/ InitResolves
  \/ \E f \in Failures("initEmbedder") : InitRejects(f)
  \/ \E n \in 0..MaxNodes : QueryResolves(n)
  \/ \E f \in Failures("queryEmbeddableNodes") : QueryRejects(f)
  \/ SynthReturns
  \/ \E f \in Failures("generateBatchEmbeddingTexts") : SynthThrows(f)
  \/ EmbedResolves
  \/ \E f \in Failures("embedBatch") : EmbedRejects(f)
  \/ InsertResolves
  \/ \E f \in Failures("batchInsertEmbeddings"), w \in 0..(Len(batch) - 1) :
       InsertRejects(f, w)
  \/ IndexResolves
  \/ \E reason \in {IndexAlreadyExists} \cup OtherIndexErrors,
        f \in Failures("createVectorIndex") : IndexRejects(reason, f)

\* The steps of one run and of one search, in any order.
NextConcurrent == NextRun \/ NextSearch

SpecConcurrent == InitConcurrent /\ [][NextConcurrent]_vars

\* ------------------------------------------------------- reading rows
\* The names of a row's fields in the RETURN order of each query.
PlainFields ==
  << "nodeId", "name", "label", "filePath", "distance", "startLine", "endLine" >>
ContextFields ==
  << "matchId", "matchName", "matchLabel", "matchPath", "distance",
     "connectedId", "connectedName", "connectedLabel", "relationType" >>
NodeFields ==
  << "id", "name", "label", "filePath", "content", "startLine", "endLine" >>

FieldsOf(query) ==
  IF query = "semanticSearch" THEN PlainFields
  ELSE IF query = "semanticSearchWithContext" THEN ContextFields
  ELSE NodeFields

\* A field's value: << >> for null or undefined, else one string.
FieldValues == { << >>, << "" >>, << "x" >> }

\* The shapes the store delivers a row in: an object with named fields, or
\* an array of the values in the RETURN order.
RowShapes == {"named", "positional"}

\* A row is an object: its named properties and its indexed elements.
RowOf(query, shape, values) ==
  [query |-> query,
   named |-> IF shape = "named"
               THEN [name \in { FieldsOf(query)[i] : i \in 1..Len(values) } |->
                       values[CHOOSE i \in 1..Len(values) :
                                FieldsOf(query)[i] = name]]
               ELSE << >>,
   positional |-> IF shape = "positional" THEN values ELSE << >>]

\* row.name
Get(row, name) ==
  IF name \in DOMAIN row.named THEN row.named[name] ELSE << >>

\* row[position]
At(row, position) ==
  IF position + 1 \in DOMAIN row.positional
    THEN row.positional[position + 1]
    ELSE << >>

\* a ?? b
Coalesce(a, b) == IF a # << >> THEN a ELSE b

\* Variant: the named field alone.
ReadFieldNamedOnly(row, name, position) == Get(row, name)

\* row.name ?? row[position]
ReadField(row, name, position) == Coalesce(Get(row, name), At(row, position))

\* The object literal semanticSearch maps a row to.
MapPlainRow(row) ==
  [query |-> row.query,
   named |-> [name \in { PlainFields[i] : i \in 1..Len(PlainFields) } |->
                ReadField(row, name,
                          (CHOOSE i \in 1..Len(PlainFields) :
                             PlainFields[i] = name) - 1)],
   positional |-> << >>]

\* semanticSearchWithContext returns the rows of executeQuery as they are.
ReturnContextRow(row) == row

\* The object literal queryEmbeddableNodes maps a row to.
MapNodeRow(row) ==
  [query |-> row.query,
   named |-> [name \in { NodeFields[i] : i \in 1..Len(NodeFields) } |->
                LET position == (CHOOSE i \in 1..Len(NodeFields) :
                                   NodeFields[i] = name) - 1
                IN IF name = "content"
                     THEN Coalesce(ReadField(row, name, position), << "" >>)
                     ELSE ReadField(row, name, position)],
   positional |-> << >>]

\* The store has delivered one row of one of the three queries.
InitRows ==
  /\ IdlePipeline
  /\ IdleAgent
  /\ IdleSettings
  /\ IdleSearch
  /\ table = << >>
  /\ indexCount = 0
  /\ embedderReady = TRUE
  /\ relations = {}
  /\ labels = << >>
  /\ sinkThrows = FALSE
  /\ readBy = "none"
  /\ readResult = << >>
  /\ \E query \in {"semanticSearch", "semanticSearchWithContext",
                   "queryEmbeddableNodes"},
        shape \in RowShapes :
       \E values \in [1..Len(FieldsOf(query)) -> FieldValues] :
         storeRow = RowOf(query, shape, values)

ReadPlainRow ==
  /\ readBy = "none"
  /\ storeRow.query = "semanticSearch"
  /\ readBy' = "semanticSearch"
  /\ readResult' = MapPlainRow(storeRow)
  /\ UNCHANGED << agentVars, settingsVars,
                  pipelineVars, searchVars, storeVars, embedderReady, labels,
                  sinkThrows, sinkThrew,
                  storeRow >>

ReadContextRow ==
  /\ readBy = "none"
  /\ storeRow.query = "semanticSearchWithContext"
  /\ readBy' = "semanticSearchWithContext"
  /\ readResult' = ReturnContextRow(storeRow)
  /\ UNCHANGED << agentVars, settingsVars,
                  pipelineVars, searchVars, storeVars, embedderReady, labels,
                  sinkThrows, sinkThrew,
                  storeRow >>

ReadNodeRow ==
  /\ readBy = "none"
  /\ storeRow.query = "queryEmbeddableNodes"
  /\ readBy' = "queryEmbeddableNodes"
  /\ readResult' = MapNodeRow(storeRow)
  /\ UNCHANGED << agentVars, settingsVars,
                  pipelineVars, searchVars, storeVars, embedderReady, labels,
                  sinkThrows, sinkThrew,
                  storeRow >>

NextRows == ReadPlainRow \/ ReadContextRow \/ ReadNodeRow

SpecRows == InitRows /\ [][NextRows]_vars

\* --------------------------------------------------- the agent's stream
\* streamAgentResponse (src/core/llm/agent.ts): an async generator that
\* turns the steps of the agent's stream into chunks. Each step is the state
\* of the agent, whose messages grow from step to step.
Undefined == "undefined"

HumanMessage ==
  [type |-> "human", content |-> "question", toolCalls |-> << >>,
   toolCallId |-> ""]

\* A tool call whose arguments are there, and one whose
\* function.arguments is not JSON.
ToolCallParsed == [id |-> "call-1", name |-> "search", args |-> "parsed"]
ToolCallUnparsable == [id |-> "call-2", name |-> "search", args |-> "unparsable"]

ToolMessage ==
  [type |-> "tool", content |-> "result", toolCalls |-> << >>,
   toolCallId |-> "call-1"]

\* The messages a step can add to the agent state.
StepMessages ==
  { [type |-> "ai", content |-> "answer", toolCalls |-> << >>,
     toolCallId |-> ""],
    [type |-> "ai", content |-> "thinking",
     toolCalls |-> << ToolCallParsed >>, toolCallId |-> ""],
    [type |-> "ai", content |-> "",
     toolCalls |-> << ToolCallParsed, ToolCallParsed >>, toolCallId |-> ""],
    [type |-> "ai", content |-> "thinking",
     toolCalls |-> << ToolCallParsed, ToolCallUnparsable >>, toolCallId |-> ""],
    ToolMessage,
    [type |-> "system", content |-> "note", toolCalls |-> << >>,
     toolCallId |-> ""] }

\* What a step appends to the messages of the step before.
StepGrowths ==
  { << >> } \cup { << m >> : m \in StepMessages } \cup { << ToolMessage, ToolMessage >> }

\* The number of messages streamAgentResponse is called with.
AgentInputCounts == {1, 2}

DoneChunk == [type |-> "done"]

\* error instanceof Error ? error.message : String(error)
AgentErrorMessage(f) == f.message

ErrorChunk(f) == [type |-> "error", error |-> AgentErrorMessage(f)]

\* The chunk for the content of an AI message: reasoning when tool calls
\* follow, content otherwise; none for blank content.
ContentChunks(msg) ==
  IF msg.content = ""
    THEN << >>
    ELSE << [type |-> IF Len(msg.toolCalls) > 0 THEN "reasoning" ELSE "content",
             reasoning |-> IF Len(msg.toolCalls) > 0 THEN msg.content ELSE Undefined,
             content |-> IF Len(msg.toolCalls) = 0 THEN msg.content ELSE Undefined] >>

\* One tool_call chunk per tool call, up to the call whose arguments
\* JSON.parse rejects.
RECURSIVE ToolCallChunks(_)
ToolCallChunks(tcs) ==
  IF tcs = << >>
    THEN [chunks |-> << >>, failure |-> << >>]
    ELSE IF Head(tcs).args = "unparsable"
      THEN [chunks |-> << >>,
            failure |-> << [isError |-> TRUE, message |-> "JSON.parse"] >>]
      ELSE LET rest == ToolCallChunks(Tail(tcs))
           IN [chunks |->
                 << [type |-> "tool_call",
                     toolCall |-> [id |-> Head(tcs).id, name |-> Head(tcs).name,
                                   args |-> Head(tcs).args,
                                   status |-> "running"]] >> \o rest.chunks,
               failure |-> rest.failure]

\* The chunks of one message, and what handling it threw.
ChunksOfMessage(msg) ==
  IF msg.type = "ai"
    THEN LET called == ToolCallChunks(msg.toolCalls)
         IN [chunks |-> ContentChunks(msg) \o called.chunks,
             failure |-> called.failure]
    ELSE IF msg.type = "tool"
      THEN [chunks |->
              << [type |-> "tool_result",
                  toolCall |-> [id |-> msg.toolCallId, name |-> "tool",
                                args |-> "{}", result |-> msg.content,
                                status |-> "completed"]] >>,
            failure |-> << >>]
      ELSE [chunks |-> << >>, failure |-> << >>]

\* Variant: every message of the step handled, from the first.
FirstNewIndexFromStart(last) == 1

\* for (let i = lastMessageCount; ...): the position of the first message
\* of a step that the step before did not hold.
FirstNewIndex(last) == last + 1

\* The inner loop over a step's messages from position i on: the chunks
\* yielded, the positions handled, and what stopped the loop, if anything.
RECURSIVE HandleFrom(_, _)
HandleFrom(msgs, i) ==
  IF i > Len(msgs)
    THEN [chunks |-> << >>, handled |-> << >>, failure |-> << >>]
    ELSE LET here == ChunksOfMessage(msgs[i])
         IN IF here.failure # << >>
              THEN [chunks |-> here.chunks, handled |-> << i >>,
                    failure |-> here.failure]
              ELSE LET rest == HandleFrom(msgs, i + 1)
                   IN [chunks |-> here.chunks \o rest.chunks,
                       handled |-> << i >> \o rest.handled,
                       failure |-> rest.failure]

\* Variant: the caught failure thrown on to the consumer.
AgentRethrownToConsumer(f) == << f >>

\* What the catch block lets out to the consumer: nothing.
AgentRethrown(f) == << >>

\* The catch block: the failure becomes the error chunk.
AgentCatch(cs, f) ==
  /\ chunks' = Append(cs, ErrorChunk(f))
  /\ agentFailure' = << f >>
  /\ agentThrown' = AgentRethrown(f)
  /\ agentPc' = "ended"

\* streamAgentResponse up to its await of agent.stream.
StreamAgentResponse(n) ==
  /\ agentPc = "idle"
  /\ agentMessages' = [i \in 1..n |-> HumanMessage]
  /\ lastMessageCount' = n
  /\ agentPc' = "opening"
  /\ UNCHANGED << agentSteps, chunks, handled, agentFailure, agentThrown,
                  embeddingVars, settingsVars >>

StreamOpens ==
  /\ agentPc = "opening"
  /\ agentPc' = "streaming"
  /\ UNCHANGED << agentMessages, agentSteps, lastMessageCount, chunks, handled,
                  agentFailure, agentThrown, embeddingVars, settingsVars >>

StreamOpenRejects(f) ==
  /\ agentPc = "opening"
  /\ AgentCatch(chunks, f)
  /\ UNCHANGED << agentMessages, agentSteps, lastMessageCount, handled,
                  embeddingVars, settingsVars >>

\* The stream delivers a step: its new messages are turned into chunks.
StepArrives(new) ==
  LET stepMessages == agentMessages \o new
      res == HandleFrom(stepMessages, FirstNewIndex(lastMessageCount))
  IN /\ agentPc = "streaming"
     /\ agentSteps < MaxSteps
     /\ agentSteps' = agentSteps + 1
     /\ agentMessages' = stepMessages
     /\ handled' = handled \o res.handled
     /\ IF res.failure = << >>
          THEN /\ chunks' = chunks \o res.chunks
               /\ lastMessageCount' = Len(stepMessages)
               /\ UNCHANGED << agentPc, agentFailure, agentThrown >>
          ELSE /\ AgentCatch(chunks \o res.chunks, res.failure[1])
               /\ UNCHANGED lastMessageCount
     /\ UNCHANGED << embeddingVars, settingsVars >>

\* The stream is exhausted: the done chunk.
StreamEnds ==
  /\ agentPc = "streaming"
  /\ chunks' = Append(chunks, DoneChunk)
  /\ agentPc' = "ended"
  /\ UNCHANGED << agentMessages, agentSteps, lastMessageCount, handled,
                  agentFailure, agentThrown, embeddingVars, settingsVars >>

\* The stream throws while the generator waits for its next step.
StreamFails(f) ==
  /\ agentPc = "streaming"
  /\ AgentCatch(chunks, f)
  /\ UNCHANGED << agentMessages, agentSteps, lastMessageCount, handled,
                  embeddingVars, settingsVars >>

NextAgent ==
  \/ \E n \in AgentInputCounts : StreamAgentResponse(n)
  \/ StreamOpens
  \/ \E f \in Failures("agent.stream") : StreamOpenRejects(f)
  \/ \E new \in StepGrowths : StepArrives(new)
  \/ StreamEnds
  \/ \E f \in Failures("stream") : StreamFails(f)

SpecAgent == Init /\ [][NextAgent]_vars

\* ------------------------------------------------ the settings service
\* The settings service (settings-service.ts): LLM settings kept as JSON text
\* in localStorage under STORAGE_KEY. An object is a function from its keys
\* to its values; the item is << "none" >> when absent, << "empty" >> for the
\* empty string, << "garbage" >> for text that is not JSON, << "null" >> for
\* the JSON text null, and << "object", o >> for the JSON text of o.
STORAGE_KEY == "gitnexus-llm-settings"

Providers == {"azure-openai", "gemini", "ollama"}
ProviderKeys == {"azureOpenAI", "gemini", "ollama"}

EmptyObject == [x \in {} |-> x]

DEFAULT_LLM_SETTINGS ==
  [activeProvider |-> "gemini",
   azureOpenAI |-> [apiKey |-> "", endpoint |-> ""],
   gemini |-> [apiKey |-> "", model |-> "gemini-2.0-flash"],
   ollama |-> [model |-> "llama3.2"]]

\* Variant: the first object's values kept where both have the key.
SpreadKeepingFirst(a, b) ==
  [f \in DOMAIN a \cup DOMAIN b |-> IF f \in DOMAIN a THEN a[f] ELSE b[f]]

\* { ...a, ...b }
Spread(a, b) ==
  [f \in DOMAIN a \cup DOMAIN b |-> IF f \in DOMAIN b THEN b[f] ELSE a[f]]

\* JSON.stringify leaves out the properties whose value is undefined.
Defined(o) == [f \in { g \in DOMAIN o : o[g] # Undefined } |-> o[f]]

\* JSON.stringify(settings)
Stringify(settings) ==
  << "object",
     [k \in DOMAIN settings |->
        IF k \in ProviderKeys THEN Defined(settings[k]) ELSE settings[k]] >>

\* The try block of loadSettings: what it returns, or that it threw
\* (JSON.parse on text that is not JSON, parsed.azureOpenAI on null).
TryLoad(stored) ==
  IF stored[1] \in {"none", "empty"}
    THEN [threw |-> FALSE, value |-> DEFAULT_LLM_SETTINGS]
    ELSE IF stored[1] \in {"garbage", "null"}
      THEN [threw |-> TRUE, value |-> EmptyObject]
      ELSE LET parsed == stored[2]
           IN [threw |-> FALSE,
               value |->
                 [k \in DOMAIN DEFAULT_LLM_SETTINGS \cup DOMAIN parsed |->
                    IF k \in ProviderKeys
                      THEN Spread(DEFAULT_LLM_SETTINGS[k],
                                  IF k \in DOMAIN parsed
                                    THEN parsed[k] ELSE EmptyObject)
                      ELSE IF k \in DOMAIN parsed
                        THEN parsed[k] ELSE DEFAULT_LLM_SETTINGS[k]]]

\* loadSettings: the catch block answers with the defaults.
LoadSettingsOf(stored) ==
  IF TryLoad(stored).threw THEN DEFAULT_LLM_SETTINGS ELSE TryLoad(stored).value

Field(o, f) == IF f \in DOMAIN o THEN o[f] ELSE Undefined

\* !value, for a string or undefined
Falsy(v) == v \in {"", Undefined}

\* Variant: Azure OpenAI taken as configured by its key alone.
AzureUsableByKey(azure) == ~Falsy(Field(azure, "apiKey"))

\* !(!settings.azureOpenAI?.apiKey || !settings.azureOpenAI?.endpoint)
AzureUsable(azure) ==
  ~Falsy(Field(azure, "apiKey")) /\ ~Falsy(Field(azure, "endpoint"))

\* !!settings.gemini?.apiKey
GeminiUsable(gemini) == ~Falsy(Field(gemini, "apiKey"))

Null == << >>

\* getActiveProviderConfig on the settings loadSettings returned.
ActiveProviderConfig(settings) ==
  LET active == settings["activeProvider"]
  IN IF active = "azure-openai"
       THEN IF AzureUsable(settings["azureOpenAI"])
              THEN << Spread([provider |-> "azure-openai"], settings["azureOpenAI"]) >>
              ELSE Null
       ELSE IF active = "gemini"
         THEN IF GeminiUsable(settings["gemini"])
                THEN << Spread([provider |-> "gemini"], settings["gemini"]) >>
                ELSE Null
         ELSE IF active = "ollama"
           THEN << Spread([provider |-> "ollama"], settings["ollama"]) >>
           ELSE Null

\* The calls kept: the latest two.
Shift(cs, c) == IF Len(cs) < 2 THEN Append(cs, c) ELSE << cs[2], c >>

\* saveSettings(settings): setItem stores the text, or throws (quota) and
\* the catch block logs it.
SaveSettings(settings, stored) ==
  /\ storage' = IF stored THEN Stringify(settings) ELSE storage
  /\ calls' = Shift(calls, [op |-> "saveSettings", arg |-> settings,
                            stored |-> stored])
  /\ UNCHANGED << embeddingVars, agentVars >>

LoadSettings ==
  /\ calls' = Shift(calls, [op |-> "loadSettings", before |-> storage,
                            result |-> LoadSettingsOf(storage)])
  /\ UNCHANGED << storage, embeddingVars, agentVars >>

ClearSettings ==
  /\ storage' = << "none" >>
  /\ calls' = Shift(calls, [op |-> "clearSettings"])
  /\ UNCHANGED << embeddingVars, agentVars >>

SetActiveProvider(provider, stored) ==
  LET current == LoadSettingsOf(storage)
      updated == Spread(current, [activeProvider |-> provider])
  IN /\ storage' = IF stored THEN Stringify(updated) ELSE storage
     /\ calls' = Shift(calls, [op |-> "setActiveProvider", arg |-> provider,
                               current |-> current, result |-> updated,
                               stored |-> stored])
     /\ UNCHANGED << embeddingVars, agentVars >>

GetActiveProviderConfig ==
  /\ calls' = Shift(calls, [op |-> "getActiveProviderConfig",
                            settings |-> LoadSettingsOf(storage),
                            result |-> ActiveProviderConfig(LoadSettingsOf(storage))])
  /\ UNCHANGED << storage, embeddingVars, agentVars >>

IsProviderConfigured ==
  /\ calls' = Shift(calls, [op |-> "isProviderConfigured",
                            settings |-> LoadSettingsOf(storage),
                            result |-> ActiveProviderConfig(LoadSettingsOf(storage)) # Null])
  /\ UNCHANGED << storage, embeddingVars, agentVars >>

\* The settings callers save.
SettingsInputs ==
  { [activeProvider |-> "azure-openai", azureOpenAI |-> azure,
     gemini |-> [apiKey |-> "gemini-key", model |-> "gemini-1.5-pro"],
     ollama |-> [model |-> "mistral"]] :
      azure \in { [apiKey |-> "azure-key", endpoint |-> ""],
                  [apiKey |-> "azure-key", endpoint |-> "https://azure"],
                  [apiKey |-> Undefined, endpoint |-> "https://azure"] } }
  \cup { [activeProvider |-> "gemini",
          azureOpenAI |-> [apiKey |-> "", endpoint |-> ""],
          gemini |-> [apiKey |-> g, model |-> "gemini-1.5-pro"],
          ollama |-> [model |-> "mistral"]] : g \in {"", "gemini-key"} }
  \cup { [activeProvider |-> "ollama", gemini |-> [apiKey |-> "gemini-key"]] }

\* What localStorage may hold before the first call: nothing, text that is
\* not settings, or the settings an earlier version of the application kept.
InitialStorage ==
  { << "none" >>, << "empty" >>, << "garbage" >>, << "null" >> }
  \cup { << "object", o >> :
           o \in { EmptyObject,
                   [activeProvider |-> "azure-openai"],
                   [gemini |-> [apiKey |-> "gemini-key"]],
                   [activeProvider |-> "openai",
                    azureOpenAI |-> [apiKey |-> "azure-key"]] } }

InitSettings ==
  /\ IdlePipeline
  /\ IdleAgent
  /\ IdleSearch
  /\ IdleRows
  /\ labels = << >>
  /\ sinkThrows = FALSE
  /\ table = << >>
  /\ indexCount = 0
  /\ embedderReady = FALSE
  /\ relations = {}
  /\ storage \in InitialStorage
  /\ calls = << >>

NextSettings ==
  \/ \E settings \in SettingsInputs, stored \in BOOLEAN : SaveSettings(settings, stored)
  \/ LoadSettings
  \/ ClearSettings
  \/ \E provider \in Providers, stored \in BOOLEAN : SetActiveProvider(provider, stored)
  \/ GetActiveProviderConfig
  \/ IsProviderConfigured

SpecSettings == InitSettings /\ [][NextSettings]_vars

\* ------------------------------------------------------------ properties
Phases == {"loading-model", "embedding", "indexing", "ready", "error"}

PhaseRank(p) ==
  CASE p = "loading-model" -> 0
    [] p = "embedding" -> 1
    [] p = "indexing" -> 2
    [] p = "ready" -> 3
    [] OTHER -> 4

EventsOfPhase(p) == { i \in 1..Len(events) : events[i].phase = p }

RECURSIVE SumSeq(_)
SumSeq(s) == IF s = << >> THEN 0 ELSE s[1] + SumSeq(Tail(s))

\* The least number of batches of `size` nodes that cover `total` nodes.
LeastCover(total, size) ==
  CHOOSE k \in 0..total : k * size >= total /\ (k - 1) * size < total

\* C1: the non-error events of a run come in the order loading-model,
\* embedding, indexing, ready (no event of an earlier phase after one of a
\* later phase), and every event's phase is one of these four or error.
C1_PhaseOrder ==
  \A j \in 1..Len(events) :
    /\ events[j].phase \in Phases
    /\ \A i \in 1..(j - 1) :
         (events[i].phase # "error" /\ events[j].phase # "error")
           => PhaseRank(events[i].phase) <= PhaseRank(events[j].phase)

\* A finished run that went through all four phases.
C1_Witness ==
  /\ pc = "returned"
  /\ \A p \in {"loading-model", "embedding", "indexing", "ready"} :
       EventsOfPhase(p) # {}

\* C2 as stated: for any two events of a run, the later one's percent is at
\* least the earlier one's.
C2_PercentNonDecreasing ==
  \A j \in 1..Len(events) : \A i \in 1..(j - 1) :
    events[i].percent <= events[j].percent

\* C2 amended: percent is non-decreasing between any two events of a run
\* unless the later one is the error event (percent 0) or both are
\* loading-model events (which forward the engine's download fraction and
\* stay within 0..20).
C2_PercentNonDecreasingAcrossPhases ==
  \A j \in 1..Len(events) :
    /\ events[j].phase = "loading-model" => events[j].percent \in 0..20
    /\ \A i \in 1..(j - 1) :
         ( /\ events[j].phase # "error"
           /\ ~(events[i].phase = "loading-model"
                /\ events[j].phase = "loading-model") )
           => events[i].percent <= events[j].percent

\* A finished run with forwarded download events and several batches.
C2_Witness ==
  /\ pc = "returned"
  /\ downloads > 0
  /\ Len(batchSizes) > 1

\* C3: when a step of the run fails (other than the index already existing),
\* the run's last event is {phase: error, percent: 0, error: message} and
\* the run has re-raised that same failure.
C3_FailureReportedThenRethrown ==
  (failed # << >> /\ indexOutcome # IndexAlreadyExists)
    => /\ pc = "thrown"
       /\ thrown = failed
       /\ Last(events) =
            [phase |-> "error", percent |-> 0,
             error |-> ErrorMessage(failed[1])]

C5_OtherIndexFailureIsFatal ==
  indexOutcome \in OtherIndexErrors
    => /\ pc = "thrown"
       /\ thrown # << >>
       /\ Last(events).phase = "error"
       /\ EventsOfPhase("ready") = {}

\* C6: when the store answers that the index already exists, the run does
\* not throw, ends with ready at 100%, and the store holds a single index.
C6_IndexCreationIdempotent ==
  /\ indexCount <= 1
  /\ indexOutcome = IndexAlreadyExists
       => /\ pc = "returned"
          /\ thrown = << >>
          /\ Last(events).phase = "ready"
          /\ Last(events).percent = 100
          /\ indexCount = 1

\* A second run that found the index of the first.
C6_Witness ==
  /\ run = 2
  /\ indexOutcome = IndexAlreadyExists
  /\ pc = "returned"

\* C7: once the node selector has returned zero nodes, the run has returned
\* with ready at 100%, has processed zero batches and has called neither
\* embedBatch, nor the batch insert, nor index creation.
C7_EmptyFastPath ==
  (selected /\ totalNodes = 0)
    => /\ pc = "returned"
       /\ thrown = << >>
       /\ Last(events).phase = "ready"
       /\ Last(events).percent = 100
       /\ batchSizes = << >>
       /\ embedCalls = 0
       /\ insertCalls = 0
       /\ indexCalls = 0

\* The selector returned no node.
C7_Witness ==
  /\ selected
  /\ totalNodes = 0
  /\ pc = "returned"

\* C8: with zero embeddable nodes the run emits one ready event, equal to
\* {phase: ready, percent: 100, nodesProcessed: 0, totalNodes: 0}, as its
\* last event, and no embedding or indexing event.
C8_EmptyRunEvents ==
  (selected /\ totalNodes = 0)
    => /\ EventsOfPhase("ready") = {Len(events)}
       /\ Last(events) =
            [phase |-> "ready", percent |-> 100, nodesProcessed |-> 0,
             totalNodes |-> 0]
       /\ EventsOfPhase("embedding") = {}
       /\ EventsOfPhase("indexing") = {}

\* An empty run whose model load forwarded download events.
C8_Witness ==
  /\ selected
  /\ nodes = << >>
  /\ downloads > 0
  /\ Last(events).phase = "ready"

\* C9: for totalNodes > 0 the loop runs ceil(totalNodes / batchSize)
\* batches: every batch but the last has batchSize nodes, the last has
\* totalNodes - (totalBatches - 1) * batchSize, and once the loop is done
\* the batch sizes sum to totalNodes.
C9_BatchPartition ==
  (selected /\ totalNodes > 0)
    => /\ totalBatches = LeastCover(totalNodes, batchSize)
       /\ Len(batchSizes) <= totalBatches
       /\ \A i \in 1..Len(batchSizes) :
            batchSizes[i] =
              IF i < totalBatches
                THEN batchSize
                ELSE totalNodes - (totalBatches - 1) * batchSize
       /\ pc \in {"index", "returned"}
            => /\ Len(batchSizes) = totalBatches
               /\ SumSeq(batchSizes) = totalNodes

\* A finished run whose last batch is smaller than batchSize.
C9_Witness ==
  /\ pc = "returned"
  /\ Len(batchSizes) > 1
  /\ Last(batchSizes) < batchSize

\* C10: every embedding event has percent within 20..90, and the percents
\* of successive embedding events do not decrease.
C10_EmbeddingBand ==
  \A j \in EventsOfPhase("embedding") :
    /\ events[j].percent \in 20..90
    /\ \A i \in EventsOfPhase("embedding") :
         i < j => events[i].percent <= events[j].percent

\* The loop has reported three batches with rising percents.
C10_Witness ==
  /\ Cardinality(EventsOfPhase("embedding")) > 3
  /\ \E i, j \in EventsOfPhase("embedding") :
       i < j /\ events[i].percent < events[j].percent /\ events[i].percent > 20

IsEmbeddingEvent(e) == e.phase = "embedding"

\* p is num / den rounded to the nearest integer, halves up.
IsRounded(p, num, den) ==
  /\ 2 * den * p <= 2 * num + den
  /\ 2 * num + den < 2 * den * (p + 1)

\* The records this run has added to the table.
WrittenByRun ==
  SubSeq(table, Len(startStore.table) + 1, Len(table))

CountOf(t, id) == Cardinality({ i \in 1..Len(t) : t[i].nodeId = id })

\* The table holds r records for each of the node ids 1..n and nothing else.
UniformTable(t, n, r) ==
  /\ Len(t) = r * n
  /\ \A id \in 1..n : CountOf(t, id) = r

\* C11: the embedding events of a run are the initial one and then one per
\* batch written; the i-th of these carries currentBatch = i, totalBatches =
\* ceil(totalNodes / batchSize), nodesProcessed = min(i * batchSize,
\* totalNodes) and percent = round(20 + 70 * nodesProcessed / totalNodes);
\* 25 nodes in batches of 10 give batches of 10, 10, 5 and percents 48, 76,
\* 90.
C11_BatchProgressEvents ==
  (selected /\ totalNodes > 0)
    => LET emb == SelectSeq(events, IsEmbeddingEvent)
       IN /\ Len(emb) = Len(batchSizes) + 1
          /\ \A i \in 1..Len(batchSizes) :
               LET e == emb[i + 1]
                   np == Min(i * batchSize, totalNodes)
               IN /\ e.currentBatch = i
                  /\ e.totalBatches = LeastCover(totalNodes, batchSize)
                  /\ e.nodesProcessed = np
                  /\ e.totalNodes = totalNodes
                  /\ IsRounded(e.percent, 20 * totalNodes + 70 * np, totalNodes)
          /\ (totalNodes = 25 /\ batchSize = 10 /\ pc \in {"index", "returned"})
               => /\ batchSizes = << 10, 10, 5 >>
                  /\ [i \in 1..3 |-> emb[i + 1].percent] = << 48, 76, 90 >>

\* The run over 25 nodes in batches of 10 has finished.
C11_Witness ==
  /\ totalNodes = 25
  /\ batchSize = 10
  /\ pc = "returned"
  /\ Len(batchSizes) = 3

EmbeddingPhaseSteps ==
  {"generateBatchEmbeddingTexts", "embedBatch", "batchInsertEmbeddings"}

\* C12: while a run is in its embedding phase at batch j, or has failed
\* there, the table still holds what it held before the run followed by the
\* records of the batches before j in node order, holds no record of a batch
\* after j, and the run has not requested index creation nor changed the
\* store's indexes.
C12_PartialRunLeavesPrefix ==
  ( \/ pc \in {"synth", "embed", "insert"}
    \/ (pc = "thrown" /\ failed # << >>
        /\ failed[1].message \in EmbeddingPhaseSteps) )
    => LET before == Min(batchIndex * batchSize, totalNodes)
           upto == Min((batchIndex + 1) * batchSize, totalNodes)
       IN /\ SubSeq(table, 1, Len(startStore.table)) = startStore.table
          /\ Len(WrittenByRun) >= before
          /\ \A i \in 1..before : WrittenByRun[i].nodeId = nodes[i]
          /\ \A i \in 1..Len(WrittenByRun) :
               WrittenByRun[i].nodeId \in { nodes[k] : k \in 1..upto }
          /\ indexCalls = 0
          /\ indexOutcome = "none"
          /\ indexCount = startStore.indexCount

\* A run that failed in embedBatch of a middle batch.
C12_Witness ==
  /\ pc = "thrown"
  /\ failed # << >>
  /\ failed[1].message = "embedBatch"
  /\ batchIndex >= 1
  /\ batchIndex + 1 < totalBatches

\* C13: a run never removes or changes a record the table held before it;
\* a complete run appends one record per selected node, whatever the table
\* holds; so when the table held r - 1 records for each of the n node ids
\* before the r-th run, it holds r for each (r * n in total) after it.
C13_AppendOnly ==
  /\ Len(table) >= Len(startStore.table)
  /\ SubSeq(table, 1, Len(startStore.table)) = startStore.table
  /\ (pc = "returned" /\ selected)
       => /\ Len(WrittenByRun) = totalNodes
          /\ \A i \in 1..totalNodes : WrittenByRun[i].nodeId = nodes[i]
          /\ UniformTable(startStore.table, totalNodes, run - 1)
               => UniformTable(table, totalNodes, run)

\* A second complete run over the same nodes doubled every record.
C13_Witness ==
  /\ run = 2
  /\ pc = "returned"
  /\ totalNodes >= 2
  /\ UniformTable(table, totalNodes, 2)

\* C14: every batch insert is one executeWithReusedStatement call with the
\* CREATE CodeEmbedding statement and one parameter set per node of the
\* batch; a run that has returned over totalNodes > 0 has made totalBatches
\* such calls.
C14_OneStatementPerBatch ==
  /\ Len(insertLog) = insertCalls
  /\ \A i \in 1..Len(insertLog) :
       /\ insertLog[i].cypher =
            "CREATE (e:CodeEmbedding {nodeId: $nodeId, embedding: $embedding})"
       /\ Len(insertLog[i].paramsList) =
            Min(batchSize, totalNodes - (i - 1) * batchSize)
  /\ (pc = "returned" /\ totalNodes > 0)
       => Len(insertLog) = LeastCover(totalNodes, batchSize)

\* A run that has returned after several batches of several nodes.
C14_Witness ==
  /\ pc = "returned"
  /\ Len(insertLog) >= 2
  /\ Len(insertLog[1].paramsList) >= 2

\* C15: at most one embedBatch call is unsettled; the i-th call carries the
\* texts of batch i, and is made only after the records of all earlier
\* batches are written and the progress event of batch i - 1 (the initial
\* embedding event for i = 1) is the last event delivered.
C15_OneEmbedBatchAtATime ==
  /\ embedInFlight \in {0, 1}
  /\ Len(embedLog) = embedCalls
  /\ \A i \in 1..Len(embedLog) :
       LET call == embedLog[i]
           first == (i - 1) * batchSize
           size == Min(i * batchSize, totalNodes) - first
       IN /\ call.texts = [k \in 1..size |-> << "text", nodes[first + k] >>]
          /\ call.written = first
          /\ events[call.delivered].phase = "embedding"
          /\ events[call.delivered].currentBatch = i - 1

\* The third embedBatch call of a run is in flight.
C15_Witness ==
  /\ pc = "embed"
  /\ embedInFlight = 1
  /\ Len(embedLog) >= 3

\* The distance of the table's i-th record from the query of the search.
RecordDistance(i) == Abs(queryVec[1] - table[i].embedding[2][2])

ContextDone == searchPc = "done" /\ searchCall.op = "context"

\* The rows of the result for match m, neighbour c and relation type ty.
RowsFor(m, c, ty) ==
  { i \in 1..Len(searchResult) :
      /\ searchResult[i].matchId = m
      /\ searchResult[i].connectedId = c
      /\ searchResult[i].relationType = ty }

\* The records of node m that lie under the threshold 0.5.
MatchingRecords(m) ==
  { i \in 1..Len(table) : table[i].nodeId = m /\ RecordDistance(i) < 5 }

\* The relations of type ty between m and c, in either direction.
EdgesBetween(m, c, ty) ==
  { e \in relations :
      /\ e.type = ty
      /\ (e.from = m /\ e.to = c) \/ (e.from = c /\ e.to = m) }

RelationTypes == {"CALLS", "IMPORTS"}

\* C16: a search issued while the engine is not ready has failed with the
\* not-initialized error, without calling embedText or executeQuery.
C16_NotReadySearchFails ==
  (searchPc # "idle" /\ ~embedderReady)
    => /\ searchPc = "failed"
       /\ searchError =
            << "Embedding model not initialized. Run embedding pipeline first." >>
       /\ embedTextCalls = 0
       /\ searchQueries = 0
       /\ searchResult = << >>

\* A context search was refused because the engine is not ready.
C16_Witness ==
  /\ ~embedderReady
  /\ searchPc = "failed"
  /\ searchCall.op = "context"

\* C17: every row semanticSearch returns has a distance strictly under
\* maxDistance, and the rows are in ascending order of distance.
C17_PlainSearchThresholdAndOrder ==
  (searchPc = "done" /\ searchCall.op = "plain")
    => /\ \A i \in 1..Len(searchResult) :
            searchResult[i].distance < searchCall.maxDistance
       /\ \A i, j \in 1..Len(searchResult) :
            i < j => searchResult[i].distance <= searchResult[j].distance

\* A plain search over all records returned several rows and left out a
\* record lying exactly at maxDistance.
C17_Witness ==
  /\ searchPc = "done"
  /\ searchCall.op = "plain"
  /\ searchCall.k >= Len(table)
  /\ Len(searchResult) >= 2
  /\ searchResult[1].distance < searchResult[2].distance
  /\ \E i \in 1..Len(table) : RecordDistance(i) = searchCall.maxDistance

\* C18: whatever k and hops, every row semanticSearchWithContext returns
\* has a match distance strictly under 0.5, and when k covers the table
\* every record under 0.5 is returned with each of its relations.
C18_ContextFixedThreshold ==
  ContextDone
    => /\ \A i \in 1..Len(searchResult) : searchResult[i].distance < 5
       /\ searchCall.k >= Len(table)
            => \A m \in GraphNodeIds, c \in GraphNodeIds, ty \in RelationTypes :
                 (MatchingRecords(m) # {} /\ EdgesBetween(m, c, ty) # {})
                   => RowsFor(m, c, ty) # {}

\* A context search with hops = 2 returned rows and left out a connected
\* record lying exactly at 0.5.
C18_Witness ==
  /\ ContextDone
  /\ searchCall.hops = 2
  /\ searchResult # << >>
  /\ \E i \in 1..Len(table) :
       /\ RecordDistance(i) = 5
       /\ \E e \in relations :
            e.from = table[i].nodeId \/ e.to = table[i].nodeId

ContextRowsOrdered ==
  \A i, j \in 1..Len(searchResult) :
    i < j
      => \/ searchResult[i].distance < searchResult[j].distance
         \/ /\ searchResult[i].distance = searchResult[j].distance
            /\ searchResult[i].matchId <= searchResult[j].matchId

ContextRowsContiguous ==
  \A i, j, l \in 1..Len(searchResult) :
    (i < j /\ j < l /\ searchResult[i].matchId = searchResult[l].matchId)
      => searchResult[j].matchId = searchResult[i].matchId

\* C19 as stated: in every context search result the rows of one match id
\* are contiguous and the rows are ordered by distance, then match id,
\* whatever the table holds.
C19_ContextRowsGrouped ==
  ContextDone => (ContextRowsOrdered /\ ContextRowsContiguous)

\* What the ORDER BY gives: the rows are always ordered by distance, then
\* match id; the rows of one match id are contiguous whenever all records of
\* one node id lie at the same distance from the query.
ContextRowsGroupedPerDistance ==
  ContextDone
    => /\ ContextRowsOrdered
       /\ (\A a, b \in 1..Len(table) :
             table[a].nodeId = table[b].nodeId
               => RecordDistance(a) = RecordDistance(b))
            => ContextRowsContiguous

\* C20 as stated: the result holds exactly one row per pair of a match and
\* a neighbour connected to it (at most one row per pair, and one when k
\* covers the table).
C20_OneRowPerPair ==
  ContextDone
    => \A m \in GraphNodeIds, c \in GraphNodeIds :
         LET rows == UNION { RowsFor(m, c, ty) : ty \in RelationTypes }
             edges == UNION { EdgesBetween(m, c, ty) : ty \in RelationTypes }
         IN /\ Cardinality(rows) <= 1
            /\ (searchCall.k >= Len(table) /\ MatchingRecords(m) # {}
                /\ edges # {})
                 => Cardinality(rows) = 1

\* What the two MATCH clauses give: one row per pair of a matching embedding
\* record and a relation touching its node, carrying the relation's type;
\* a table with a single record, of M, whose node has one CALLS and one
\* IMPORTS relation to two neighbours, gives exactly 2 rows, both of M,
\* differing in connectedId and relationType.
OneRowPerRecordAndRelation ==
  ContextDone
    => /\ \A m \in GraphNodeIds, c \in GraphNodeIds, ty \in RelationTypes :
            /\ Cardinality(RowsFor(m, c, ty))
                 <= Cardinality(MatchingRecords(m))
                      * Cardinality(EdgesBetween(m, c, ty))
            /\ searchCall.k >= Len(table)
                 => Cardinality(RowsFor(m, c, ty))
                      = Cardinality(MatchingRecords(m))
                          * Cardinality(EdgesBetween(m, c, ty))
       /\ ( /\ Len(table) = 1
            /\ table[1].nodeId = 1
            /\ RecordDistance(1) < 5
            /\ relations = { CandidateEdges[1], CandidateEdges[2] } )
            => /\ Len(searchResult) = 2
               /\ \A i \in 1..2 : searchResult[i].matchId = 1
               /\ { << searchResult[i].connectedId, searchResult[i].relationType >> :
                      i \in 1..2 }
                    = { << 3, "CALLS" >>, << 2, "IMPORTS" >> }

\* The values the store put in the row, in the RETURN order.
DeliveredValues ==
  IF storeRow.positional # << >>
    THEN storeRow.positional
    ELSE [i \in 1..Len(FieldsOf(storeRow.query)) |->
            storeRow.named[FieldsOf(storeRow.query)[i]]]

\* C21: whatever the shape the store delivered the row in, the result of
\* either search carries every value of the row under its field name.
C21_SearchRowsReadInBothShapes ==
  readBy \in {"semanticSearch", "semanticSearchWithContext"}
    => \A i \in 1..Len(FieldsOf(storeRow.query)) :
         Get(readResult, FieldsOf(storeRow.query)[i]) = DeliveredValues[i]

\* C22: whatever the shape the store delivered the row in, the node selector
\* makes the node that carries every value of the row under its field name,
\* with content '' where the row has none.
C22_NodeRowsReadInBothShapes ==
  readBy = "queryEmbeddableNodes"
    => \A i \in 1..Len(NodeFields) :
         Get(readResult, NodeFields[i])
           = IF NodeFields[i] = "content" /\ DeliveredValues[i] = << >>
               THEN << "" >>
               ELSE DeliveredValues[i]

\* The node selector has read a positional row that has an id and no content.
C22_Witness ==
  /\ readBy = "queryEmbeddableNodes"
  /\ storeRow.named = << >>
  /\ storeRow.positional[1] = << "x" >>
  /\ storeRow.positional[5] = << >>
  /\ Get(readResult, "id") = << "x" >>

\* C24: once a collaborator call of a run has failed, the run makes no
\* further call and stays ended; every batch is handed to embedBatch and to
\* the insert at most once, and the index is requested at most once.
C24_NoRetry ==
  [][ /\ (failed # << >> /\ run' = run)
        => /\ pc \in {"thrown", "returned"}
           /\ UNCHANGED << pc, selected, embedCalls, insertCalls, indexCalls,
                           embedLog, insertLog, indexOutcome >>
      /\ \A i, j \in 1..Len(embedLog') :
           i < j => embedLog'[i].texts # embedLog'[j].texts
      /\ \A i, j \in 1..Len(insertLog') : i < j => insertLog'[i] # insertLog'[j]
      /\ embedCalls' = Len(embedLog')
      /\ insertCalls' <= embedCalls'
      /\ indexCalls' <= 1 ]_vars

\* A run has ended with the failure of its second embedBatch call.
C24_Witness ==
  /\ pc = "thrown"
  /\ failed # << >>
  /\ failed[1].message = "embedBatch"
  /\ embedCalls = 2
  /\ insertCalls = 1

InitEmbedderFailed == failed # << >> /\ failed[1].message = "initEmbedder"

\* C25: every loading-model event has percent = round(downloadPercent * 0.2),
\* within 0..20; the checkpoint (20, download 100) comes once initEmbedder
\* has resolved, after every forwarded download event and right before the
\* node query.
C25_LoadingModelPhase ==
  /\ \A i \in EventsOfPhase("loading-model") :
       /\ events[i].percent \in 0..20
       /\ 10 * events[i].percent - 5 <= 2 * events[i].modelDownloadPercent
       /\ 2 * events[i].modelDownloadPercent < 10 * events[i].percent + 5
  /\ pc = "init"
       => /\ Len(events) = downloads + 1
          /\ EventsOfPhase("loading-model") = 1..(downloads + 1)
  /\ InitEmbedderFailed
       => EventsOfPhase("loading-model") = 1..(downloads + 1)
  /\ (pc \notin {"idle", "init"} /\ ~InitEmbedderFailed)
       => /\ embedderReady
          /\ EventsOfPhase("loading-model") = 1..(downloads + 2)
          /\ events[downloads + 2] =
               [phase |-> "loading-model", percent |-> 20,
                modelDownloadPercent |-> 100]
  /\ pc = "query" => (Len(events) = downloads + 2 /\ ~selected)

\* The node query is pending after two forwarded download events, the first
\* of them at 37%.
C25_Witness ==
  /\ pc = "query"
  /\ downloads = 2
  /\ events[2].modelDownloadPercent = 37
  /\ events[2].percent = 7
  /\ Len(events) = 4

\* C26: in a run over at least one node the indexing event (90) follows the
\* last batch's write and precedes the index request, and the ready event
\* (100, final counts) follows the return of index creation and is the last
\* event.
C26_IndexingPhaseOrdered ==
  totalNodes > 0
    => /\ \A i \in EventsOfPhase("indexing") :
            /\ events[i] =
                 [phase |-> "indexing", percent |-> 90,
                  nodesProcessed |-> totalNodes, totalNodes |-> totalNodes]
            /\ i > 1
            /\ events[i - 1].phase = "embedding"
            /\ events[i - 1].nodesProcessed = totalNodes
            /\ Len(table) - Len(startStore.table) = totalNodes
            /\ Len(batchSizes) = totalBatches
       /\ indexCalls > 0 => EventsOfPhase("indexing") # {}
       /\ pc = "index"
            => /\ Last(events).phase = "indexing"
               /\ indexCalls = 1
               /\ indexOutcome = "none"
       /\ \A i \in EventsOfPhase("ready") :
            /\ i = Len(events)
            /\ events[i] =
                 [phase |-> "ready", percent |-> 100,
                  nodesProcessed |-> totalNodes, totalNodes |-> totalNodes]
            /\ events[i - 1].phase = "indexing"
            /\ indexCalls = 1
            /\ indexOutcome # "none"
            /\ pc = "returned"

\* A run over several nodes has built the index and reported ready.
C26_Witness ==
  /\ pc = "returned"
  /\ totalNodes >= 2
  /\ totalBatches >= 2
  /\ indexOutcome = "created"
  /\ Last(events).phase = "ready"

\* The nodes of the graph whose label is in the allow-list.
EmbeddableIds ==
  { id \in DOMAIN labels : labels[id] \in {"Function", "Method", "Class", "File"} }

\* C27: every record in the table belongs to a node whose label is in the
\* allow-list, the node query returns exactly those nodes, once each, and a
\* run that reaches the indexing phase has written a record for each.
C27_OnlyEmbeddableLabels ==
  /\ \A i \in 1..Len(table) : table[i].nodeId \in EmbeddableIds
  /\ selected
       => /\ { nodes[i] : i \in 1..Len(nodes) } = EmbeddableIds
          /\ Len(nodes) = Cardinality(EmbeddableIds)
  /\ pc \in {"index", "returned"}
       => { table[i].nodeId : i \in 1..Len(table) } = EmbeddableIds

\* A run over a graph holding functions, files and a folder has embedded
\* the functions and the files.
C27_Witness ==
  /\ pc = "returned"
  /\ \E a, b, c \in DOMAIN labels :
       /\ labels[a] = "Function"
       /\ labels[b] = "File"
       /\ labels[c] = "Folder"
       /\ \E i, j \in 1..Len(table) :
            table[i].nodeId = a /\ table[j].nodeId = b

\* C28: a context search returns C as connected to match M only when a
\* relation joins M and C, in either direction, and when k covers the table
\* it returns every such C for every match, whichever end M is.
C28_EitherDirectionOneHop ==
  ContextDone
    => /\ \A i \in 1..Len(searchResult) :
            \E e \in relations :
              \/ /\ e.from = searchResult[i].matchId
                 /\ e.to = searchResult[i].connectedId
              \/ /\ e.to = searchResult[i].matchId
                 /\ e.from = searchResult[i].connectedId
       /\ searchCall.k >= Len(table)
            => \A m \in GraphNodeIds, e \in relations :
                 /\ (MatchingRecords(m) # {} /\ e.from = m)
                      => \E i \in 1..Len(searchResult) :
                           /\ searchResult[i].matchId = m
                           /\ searchResult[i].connectedId = e.to
                 /\ (MatchingRecords(m) # {} /\ e.to = m)
                      => \E i \in 1..Len(searchResult) :
                           /\ searchResult[i].matchId = m
                           /\ searchResult[i].connectedId = e.from

\* Match 2 is joined to node 1 by the relation 1 -> 2 alone, and node 1
\* calls node 3: the search returns 1 as connected to 2, and not 3.
C28_Witness ==
  /\ ContextDone
  /\ relations = { CandidateEdges[1], CandidateEdges[2] }
  /\ \E i \in 1..Len(searchResult) :
       searchResult[i].matchId = 2 /\ searchResult[i].connectedId = 1
  /\ \E i \in 1..Len(searchResult) :
       searchResult[i].matchId = 1 /\ searchResult[i].connectedId = 3
  /\ \A i \in 1..Len(searchResult) :
       searchResult[i].matchId = 2 => searchResult[i].connectedId # 3

\* C29: the query a context search issues is the same for every value of
\* hops, and its rows are those of the one-hop expansion of that query over
\* the store, which hops does not enter.
C29_HopsHasNoEffect ==
  (searchCall # << >> /\ searchCall.op = "context" /\ searchCypher # << >>)
    => /\ \A h \in SearchHops :
            searchCypher[1] = ContextCypher(queryVec[1], searchCall.k, h)
       /\ searchCypher[1].expand = "(match)-[r:CodeRelation]-(connected:CodeNode)"
       /\ searchPc = "done"
            => \E S \in TopKSets(table, searchCypher[1].vector, searchCypher[1].k) :
                 searchResult = ContextQueryRows(table, searchCypher[1].vector, S)

\* A context search called with hops = 2 has returned rows.
C29_Witness ==
  /\ ContextDone
  /\ searchCall.hops = 2
  /\ Len(searchResult) >= 2

\* C23: a search query answered while the vector index does not exist ends
\* the search with the store's error, without a result and without an event
\* on the progress sink.
C23_SearchWithoutIndexFails ==
  [][ (searchPc = "query" /\ searchPc' # "query" /\ indexCount = 0)
        => /\ embedderReady
           /\ searchPc' = "failed"
           /\ searchError' = << "IndexMissingError" >>
           /\ searchResult' = << >>
           /\ events' = events ]_vars

\* A search has failed for want of the index while a run, one batch
\* written, is in its embedding phase.
C23_Witness ==
  /\ pc \in {"synth", "embed", "insert"}
  /\ Len(table) >= 1
  /\ indexCount = 0
  /\ searchPc = "failed"
  /\ searchError = << "IndexMissingError" >>

\* C30: no step of a search changes the embedding table or the index, calls
\* the batch insert or the index creation, or emits a progress event,
\* whatever the run is doing.
C30_SearchIsReadOnly ==
  [][ searchPc' # searchPc
        => UNCHANGED << table, indexCount, events, insertCalls, insertLog,
                        indexCalls, indexOutcome, embedCalls >> ]_vars

\* A search has returned rows while a run is writing a batch.
C30_Witness ==
  /\ pc = "insert"
  /\ searchPc = "done"
  /\ searchResult # << >>
  /\ Len(table) > Len(startStore.table)

\* ------------------------------------------------------------ termination
Running == {"init", "query", "synth", "embed", "insert", "index"}
Ended == {"returned", "thrown"}

\* How a run that has ended left: by returning after a final ready event, or
\* by throwing after a final error event.
EndedOneOfTwoWays ==
  /\ pc = "returned" => Last(events).phase = "ready" /\ thrown = << >>
  /\ pc = "thrown" => Last(events).phase = "error" /\ thrown # << >>

\* With batch size 0 and nodes to embed the batch loop is never left for the
\* indexing phase or for a normal return.
ZeroBatchLoopNeverLeft ==
  batchSize = 0 /\ totalNodes > 0 => pc \notin {"index", "returned"}

\* C31: when every collaborator call and every call of the sink returns or
\* throws, a run with batchSize >= 1 ends, and a run ends in one of two ways
\* only: a final ready event and a normal return, or a final error event and
\* a thrown value; with batchSize = 0 the batch loop is never left normally.
C31_RunTerminates ==
  /\ [](pc \in Running /\ batchSize >= 1 => <>(pc \in Ended))
  /\ []EndedOneOfTwoWays
  /\ []ZeroBatchLoopNeverLeft

C31_Witness ==
  /\ pc = "returned"
  /\ batchSize >= 1
  /\ totalNodes > batchSize
  /\ Last(events).phase = "ready"

\* A run with batch size 0 still in its loop after MaxIdleBatches batches.
ZeroBatchStillLooping ==
  /\ batchSize = 0
  /\ pc = "synth"
  /\ batchIndex = MaxIdleBatches
  /\ processedNodes = 0

\* ------------------------------------------------- records and progress
CountsRecords(e) == e.phase \in {"embedding", "indexing", "ready"}

\* C32: the nodesProcessed of every embedding, indexing and ready event is
\* the number of records the run has written when the event is delivered;
\* a run that reports ready over n > 0 nodes has written n records, one per
\* selected node in node order, and has requested the index once.
C32_RecordsMatchProgress ==
  /\ events # << >> /\ CountsRecords(Last(events))
       => Last(events).nodesProcessed = Len(WrittenByRun)
  /\ pc = "returned" /\ totalNodes > 0
       => /\ Last(events).phase = "ready"
          /\ Len(WrittenByRun) = totalNodes
          /\ \A i \in 1..totalNodes : WrittenByRun[i].nodeId = nodes[i]
          /\ indexCalls = 1

C32_Witness ==
  /\ pc = "returned"
  /\ run = 2
  /\ startStore.table # << >>
  /\ totalNodes = 3
  /\ batchSize = 2
  /\ Last(events).nodesProcessed = 3

\* C33: the i-th record handed to the store for a batch carries the id of
\* the batch's i-th node and the i-th vector embedBatch returned, which is
\* the vector of the i-th text; every record the run has written carries
\* the embedding of its own node's text.
C33_RecordsPairNodeAndVector ==
  /\ pc = "insert"
       => LET params == Last(insertLog).paramsList
          IN /\ Len(params) = Len(batch)
             /\ \A i \in 1..Len(batch) :
                  /\ params[i].nodeId = batch[i]
                  /\ params[i].embedding = embeddings[i]
                  /\ embeddings[i] = VectorOf(texts[i])
                  /\ texts[i] = TextOf(batch[i])
  /\ \A i \in 1..Len(WrittenByRun) :
       WrittenByRun[i].embedding = VectorOf(TextOf(WrittenByRun[i].nodeId))

C33_Witness ==
  /\ pc = "insert"
  /\ Len(batch) = 2
  /\ Len(WrittenByRun) = 2
  /\ batch[1] # batch[2]

\* The positions of the embedding events in the run's event stream.
EmbeddingEventIndices == EventsOfPhase("embedding")

\* C34: a run that returns with totalNodes > 0 has delivered totalBatches + 1
\* embedding events, one after the other: first the event with percent 20,
\* nodesProcessed 0 and currentBatch 0, delivered before the first embedBatch
\* call, then one event per batch with currentBatch 1..totalBatches, the last
\* of them with percent 90 and nodesProcessed = totalNodes.
C34_EmbeddingEventsPerBatch ==
  pc = "returned" /\ totalNodes > 0
    => /\ Cardinality(EmbeddingEventIndices) = totalBatches + 1
       /\ LET first == CHOOSE i \in EmbeddingEventIndices :
                         \A j \in EmbeddingEventIndices : i <= j
              final == first + totalBatches
          IN /\ EmbeddingEventIndices = first..final
             /\ \A k \in 0..totalBatches : events[first + k].currentBatch = k
             /\ events[first].percent = 20
             /\ events[first].nodesProcessed = 0
             /\ embedLog[1].delivered = first
             /\ events[final].percent = 90
             /\ events[final].nodesProcessed = totalNodes

C34_Witness ==
  /\ pc = "returned"
  /\ totalNodes = 4
  /\ totalBatches = 2
  /\ Cardinality(EmbeddingEventIndices) = 3

\* C37: the error event carries the message of the failure when the failure
\* is an Error instance and 'Unknown error' otherwise, and the value that
\* leaves the run is the value that was caught.
C37_ErrorMessageAndRethrow ==
  pc = "thrown"
    => /\ Last(events).phase = "error"
       /\ failed[1].isError => Last(events).error = failed[1].message
       /\ ~failed[1].isError => Last(events).error = "Unknown error"
       /\ thrown = failed

C37_Witness ==
  /\ pc = "thrown"
  /\ ~failed[1].isError
  /\ failed[1].message = "embedBatch"
  /\ Last(events).error = "Unknown error"
  /\ thrown = failed

\* ------------------------------------------------------ a throwing sink
\* The run's failure is what the sink threw on an event other than the error
\* event.
SinkFailed == failed # << >> /\ failed[1] \in SinkFailures

\* The event the sink threw on: the one delivered before the error event.
SinkFailedOn == events[Len(events) - 1]

\* The calls made by the time the event e was delivered are all the calls
\* the run has made.
NoCallAfter(e) ==
  /\ embedInFlight = 0
  /\ e.phase = "loading-model"
       => ~selected /\ embedCalls = 0 /\ insertCalls = 0 /\ indexCalls = 0
  /\ e.phase = "embedding"
       => /\ embedCalls = e.currentBatch
          /\ insertCalls = e.currentBatch
          /\ Len(WrittenByRun) = e.nodesProcessed
          /\ indexCalls = 0
  /\ e.phase = "indexing" => indexCalls = 0 /\ indexCount = startStore.indexCount
  /\ e.phase = "ready" /\ e.totalNodes = 0
       => embedCalls = 0 /\ insertCalls = 0 /\ indexCalls = 0

\* C35: when the sink throws on an event other than the error event, the
\* run makes no further engine or store call, delivers the error event for
\* what the sink threw and throws it; when the sink throws on the error
\* event, what leaves the run is what the sink threw there, not the failure
\* the catch block had caught.
C35_SinkFailureHandled ==
  /\ SinkFailed
       => /\ pc = "thrown"
          /\ Len(events) >= 2
          /\ Last(events) = ErrorEvent(failed[1])
          /\ SinkFailedOn.phase # "error"
          /\ NoCallAfter(SinkFailedOn)
          /\ sinkThrew = << >> => thrown = failed
  /\ sinkThrew # << >>
       => /\ pc = "thrown"
          /\ Last(events).phase = "error"
          /\ thrown = sinkThrew
          /\ thrown # failed

C35_Witness ==
  /\ SinkFailed
  /\ SinkFailedOn.phase = "embedding"
  /\ SinkFailedOn.currentBatch = 1
  /\ totalBatches = 2
  /\ sinkThrew # << >>
  /\ thrown = sinkThrew

\* The sink threw on the indexing event, and returned from the error event.
SinkFailedOnIndexing ==
  /\ SinkFailed
  /\ SinkFailedOn.phase = "indexing"
  /\ sinkThrew = << >>
  /\ thrown = failed

\* ------------------------------------------------- matches without edges
\* No relation of the graph touches node m.
Isolated(m) == \A e \in relations : e.from # m /\ e.to # m

PlainDone == searchPc = "done" /\ searchCall.op = "plain"

\* C36: a context search returns no row for a match that no relation
\* touches, while a plain search with maxDistance 0.5 whose k covers the
\* table returns every node with a record under 0.5, touched by a relation
\* or not: over a graph whose matches are all isolated the context search is
\* empty where the plain search is not.
C36_IsolatedMatchHasNoContextRow ==
  /\ ContextDone
       => \A i \in 1..Len(searchResult) : ~Isolated(searchResult[i].matchId)
  /\ (PlainDone /\ searchCall.maxDistance = ContextMaxDistance
         /\ searchCall.k >= Len(table))
       => \A m \in GraphNodeIds :
            MatchingRecords(m) # {}
              => \E i \in 1..Len(searchResult) : searchResult[i].nodeId = m

\* A context search whose k covers the table came back empty although node 2
\* has a record under 0.5: no relation touches node 2.
C36_Witness ==
  /\ ContextDone
  /\ searchCall.k >= Len(table)
  /\ searchResult = << >>
  /\ MatchingRecords(2) # {}
  /\ Isolated(2)

\* The plain search over such a store returns node 2.
PlainReturnsIsolatedMatch ==
  /\ PlainDone
  /\ searchCall.maxDistance = ContextMaxDistance
  /\ searchCall.k >= Len(table)
  /\ MatchingRecords(2) # {}
  /\ Isolated(2)
  /\ \E i \in 1..Len(searchResult) : searchResult[i].nodeId = 2

\* ------------------------------------------------- the agent's chunks
Terminal(c) == c.type \in {"done", "error"}

\* C38: the chunks of streamAgentResponse end with one terminal chunk, done
\* or error, and hold no other; a failure of the stream or of the handling
\* of a step ends them with the error chunk carrying its message, and
\* nothing is thrown to the consumer; the message positions turned into
\* chunks are beyond those of the step before and strictly rising, so that
\* no message is handled twice.
C38_OneTerminalChunk ==
  /\ \A i \in 1..(Len(chunks) - 1) : ~Terminal(chunks[i])
  /\ agentPc = "ended" <=> (chunks # << >> /\ Terminal(Last(chunks)))
  /\ agentThrown = << >>
  /\ agentFailure # << >>
       => /\ agentPc = "ended"
          /\ Last(chunks) = [type |-> "error", error |-> agentFailure[1].message]
  /\ agentPc = "ended" /\ agentFailure = << >> => Last(chunks) = [type |-> "done"]
  /\ \A i, j \in 1..Len(handled) : i < j => handled[i] < handled[j]
  /\ \A i \in 1..Len(handled) :
       handled[i] \in 1..Len(agentMessages) /\ agentMessages[handled[i]] # HumanMessage

\* A stream whose second step could not be handled: chunks of both steps,
\* then the error chunk.
C38_Witness ==
  /\ agentPc = "ended"
  /\ agentSteps >= 2
  /\ agentFailure # << >>
  /\ agentFailure[1].message = "JSON.parse"
  /\ Len(handled) >= 2
  /\ Len(chunks) >= 4
  /\ Last(chunks).type = "error"

\* A stream of three steps that ended with the done chunk.
AgentStreamDone ==
  /\ agentPc = "ended"
  /\ agentSteps = MaxSteps
  /\ Len(handled) >= 3
  /\ Last(chunks).type = "done"

\* ------------------------------------------------- settings round trip
\* The call before the latest and the latest call are op1 then op2.
CallsAre(op1, op2) ==
  Len(calls) = 2 /\ calls[1].op = op1 /\ calls[2].op = op2

\* got is s merged over the defaults: what s sets is there unchanged, and
\* what s leaves unset has its default.
MergedOverDefaults(s, got) ==
  /\ DOMAIN got = DOMAIN DEFAULT_LLM_SETTINGS \cup DOMAIN s
  /\ \A k \in DOMAIN got \ ProviderKeys :
       got[k] = IF k \in DOMAIN s THEN s[k] ELSE DEFAULT_LLM_SETTINGS[k]
  /\ \A k \in DOMAIN got \cap ProviderKeys :
       LET set == IF k \in DOMAIN s
                    THEN { f \in DOMAIN s[k] : s[k][f] # Undefined }
                    ELSE {}
       IN /\ DOMAIN got[k] = DOMAIN DEFAULT_LLM_SETTINGS[k] \cup set
          /\ \A f \in DOMAIN got[k] :
               got[k][f] = IF f \in set THEN s[k][f]
                                       ELSE DEFAULT_LLM_SETTINGS[k][f]

\* C39: loadSettings right after clearSettings returns the defaults;
\* loadSettings always returns settings, and returns the defaults when the
\* item is absent, empty, not parsable or null; loadSettings right after a
\* saveSettings(s) that stored returns s merged over the defaults, every
\* field that s sets read back unchanged.
C39_SettingsRoundTrip ==
  /\ \A i \in 1..Len(calls) :
       calls[i].op = "loadSettings"
         => /\ DOMAIN DEFAULT_LLM_SETTINGS \subseteq DOMAIN calls[i].result
            /\ calls[i].before[1] \in {"none", "empty", "garbage", "null"}
                 => calls[i].result = DEFAULT_LLM_SETTINGS
  /\ CallsAre("clearSettings", "loadSettings")
       => calls[2].result = DEFAULT_LLM_SETTINGS
  /\ (CallsAre("saveSettings", "loadSettings") /\ calls[1].stored)
       => MergedOverDefaults(calls[1].arg, calls[2].result)

\* Settings with a field left undefined and an endpoint set were saved and
\* loaded back.
C39_Witness ==
  /\ CallsAre("saveSettings", "loadSettings")
  /\ calls[1].stored
  /\ calls[1].arg["activeProvider"] = "azure-openai"
  /\ calls[1].arg["azureOpenAI"]["apiKey"] = Undefined
  /\ calls[2].result["azureOpenAI"]["endpoint"] = "https://azure"
  /\ calls[2].result["azureOpenAI"]["apiKey"] = ""

\* Settings were cleared over text that was not JSON and loaded back.
ClearedThenLoaded ==
  /\ CallsAre("clearSettings", "loadSettings")
  /\ calls[2].before = << "none" >>

\* C40: isProviderConfigured answers true exactly when
\* getActiveProviderConfig answers a configuration: false for azure-openai
\* with an empty apiKey or endpoint, false for gemini with an empty apiKey;
\* setActiveProvider returns and stores settings that differ from the ones
\* it loaded in activeProvider only.
C40_ConfiguredIffConfig ==
  /\ \A i \in 1..Len(calls) :
       calls[i].op = "isProviderConfigured"
         => LET settings == calls[i].settings
                active == settings["activeProvider"]
            IN /\ (active = "azure-openai"
                     /\ (settings["azureOpenAI"]["apiKey"] = ""
                           \/ settings["azureOpenAI"]["endpoint"] = ""))
                    => ~calls[i].result
               /\ (active = "gemini" /\ settings["gemini"]["apiKey"] = "")
                    => ~calls[i].result
               /\ active \notin Providers => ~calls[i].result
  /\ CallsAre("getActiveProviderConfig", "isProviderConfigured")
       => calls[2].result = (calls[1].result # Null)
  /\ CallsAre("isProviderConfigured", "getActiveProviderConfig")
       => calls[1].result = (calls[2].result # Null)
  /\ \A i \in 1..Len(calls) :
       calls[i].op = "setActiveProvider"
         => /\ DOMAIN calls[i].result = DOMAIN calls[i].current
            /\ calls[i].result["activeProvider"] = calls[i].arg
            /\ \A k \in DOMAIN calls[i].current \ {"activeProvider"} :
                 calls[i].result[k] = calls[i].current[k]
  /\ (CallsAre("setActiveProvider", "loadSettings") /\ calls[1].stored)
       => calls[2].result = calls[1].result
  /\ (CallsAre("setActiveProvider", "loadSettings") /\ ~calls[1].stored)
       => calls[2].result = calls[1].current

\* Azure OpenAI was made the active provider over settings that hold its key
\* and no endpoint, and is not configured.
C40_Witness ==
  /\ CallsAre("setActiveProvider", "isProviderConfigured")
  /\ calls[1].arg = "azure-openai"
  /\ calls[1].stored
  /\ calls[1].current["activeProvider"] = "gemini"
  /\ calls[2].settings["azureOpenAI"]["apiKey"] = "azure-key"
  /\ calls[2].settings["azureOpenAI"]["endpoint"] = ""
  /\ calls[2].result = FALSE

\* A configured provider: getActiveProviderConfig answered a configuration
\* and isProviderConfigured answered true.
ProviderConfigured ==
  /\ CallsAre("getActiveProviderConfig", "isProviderConfigured")
  /\ calls[1].result # Null
  /\ calls[1].result[1]["provider"] = "azure-openai"
  /\ calls[2].result = TRUE
====
